---- MODULE Spec2Model ----
(***************************************************************************)
(* Voice session registry (voice_session_manager.py), the two-phase front  *)
(* door (server.py) and the duplex relay (voice_websocket_handler.py).     *)
(*                                                                         *)
(* The program runs on one asyncio event loop: a coroutine runs without    *)
(* interruption from one suspension point to the next.  Every action below *)
(* is one such uninterrupted run of one coroutine.                         *)
(***************************************************************************)
EXTENDS Integers, Sequences, FiniteSets, TLC

\* ---------------------------------------------------------------- bounds
MaxSessions == 2
MaxClients == 2
MaxCloseCalls == 2
MaxTicks == 1
RelaySessions == 1
RelayClients == 1
RelayCloseCalls == 1
MaxClientFrames == 3
MaxUpstreamFrames == 3
MaxToolCalls == 2
MaxFunctionCalls == 2
MaxBurstFrames == 12
SweepSessions == 2
MaxReleaseCalls == 2
IsolationFrames == 1
IsolationToolCalls == 1

\* ------------------------------------------------------ program constants
max_age_seconds == 300
cleanup_interval_seconds == 60
out_queue_maxsize == 10

Max2(a, b) == IF a >= b THEN a ELSE b

SessionIds == 1..Max2(MaxSessions, RelaySessions)
Handlers == 1..Max2(MaxClients, RelayClients)
CloseCalls == 1..Max2(MaxCloseCalls, RelayCloseCalls)
UnknownId == 0
TickSteps == {max_age_seconds, max_age_seconds + 1}

ToolCalls == 1..MaxToolCalls
\* Exceptions _connect_session's `except Exception` catches: the ValueError
\* of _get_client and the TimeoutError of the handshake's open_timeout.
HandshakeErrors ==
    {[type |-> "ValueError", args |-> <<"GOOGLE_API_KEY required">>],
     [type |-> "TimeoutError", args |-> <<"timed out during opening handshake">>]}
\* poll before any GET /api/voice/status request was answered
NoPoll == [http |-> 0]

SessionStatus == {"pending", "connecting", "ready", "in_use", "error", "closed"}

VARIABLES
    sessions,        \* VoiceSessionManager.sessions: the ids in the dict
    status,          \* VoiceSession.status
    gemini_session,  \* VoiceSession.gemini_session is not None
    connect_task,    \* VoiceSession._connect_task: where the task stands
    created_at,      \* VoiceSession.created_at
    now,             \* the wall clock
    ticks,           \* number of clock advances so far
    nextId,          \* the next fresh session id
    closePc,         \* DELETE requests: where each close_session call stands
    closeTarget,     \* DELETE requests: the id each was called with
    closeError,      \* DELETE requests: the call raised
    aexit_calls,     \* history: times _connection_cm.__aexit__ was called
    close_warnings,  \* history: ids of the "Error closing session" warnings
    sweepPc,         \* cleanup_loop: where the sweeper stands
    sweepCur,        \* the id the sweeper's close_session call is working on
    to_remove,       \* cleanup_old_sessions: ids still to be closed
    sweepSaw,        \* history: <<id, status seen>> of the sweeper's close calls
    hpc,             \* websocket_voice_session: where each handler stands
    hsession,        \* websocket_voice_session: the session_id of the request
    listen,          \* listen_audio task
    listenFrame,     \* frame listen_audio is blocked putting
    send,            \* send_audio_to_gemini task
    sendFrame,       \* frame being sent upstream
    recv,            \* receive_audio task
    play,            \* play_audio task
    playFrame,       \* frame being written to the client
    out_queue,       \* VoiceSession.out_queue (client -> upstream)
    audio_in_queue,  \* VoiceSession.audio_in_queue (upstream -> client)
    should_stop,     \* VoiceWebSocketHandler.should_stop
    clientFrames,    \* number of audio frames clients have sent
    upstreamFrames,  \* number of audio frames the upstream has produced
    put_log,         \* history: frames put on out_queue, in order
    recv_log,        \* history: frames put on audio_in_queue, in order
    sent_upstream,   \* history: frames session.send() delivered, in order
    written,         \* history: frames websocket.send_bytes() delivered
    drained,         \* history: frames stop_speaking discarded
    error_message,   \* VoiceSession.error_message ("None" while unset)
    connection_time_seconds, \* VoiceSession.connection_time_seconds is set
    connected_at,    \* VoiceSession.connected_at is set
    tool_pc,         \* handle_tool_call tasks: where each stands
    tool_owner,      \* the handler whose receive_audio created the task
    tool_n,          \* len(tool_call.function_calls)
    tool_call,       \* tool_call.function_calls: the id and name of each
    tool_i,          \* index of the function call being processed
    tool_raised,     \* history: the exception of each function call, if any
    function_responses, \* handle_tool_call: the results collected so far
    tool_sent,       \* history: the function_responses session.send delivered
    ui_log,          \* history: tool notifications the client received
    loop_blocked,    \* the task holding the event loop in a synchronous call
    poll,             \* the answer of the last GET /api/voice/status/{id}
    released,         \* history: <<id, status found>> of the direct release_session calls
    stop_pending,     \* history: frames enqueued and not yet written when a stop was processed
    connected_stamps \* history: times connected_at was assigned

regVars == <<sessions, status, gemini_session, connect_task, created_at, now,
             ticks, nextId>>
exitVars == <<aexit_calls, close_warnings>>
closeVars == <<closePc, closeTarget, closeError, exitVars>>
sweepVars == <<sweepPc, sweepCur, to_remove, sweepSaw>>
handlerVars == <<hpc, hsession>>
taskVars == <<listen, listenFrame, send, sendFrame, recv, play, playFrame>>
queueVars == <<out_queue, audio_in_queue, should_stop, clientFrames, recv_log,
               upstreamFrames, put_log, sent_upstream, written, drained>>
relayVars == <<taskVars, queueVars>>
infoVars == <<error_message, connection_time_seconds, connected_at>>
toolVars == <<tool_pc, tool_owner, tool_n, tool_call, tool_i, tool_raised,
              function_responses, tool_sent, ui_log, loop_blocked>>
callVars == <<poll, released, stop_pending, connected_stamps>>
sideVars == <<infoVars, toolVars, callVars>>
vars == <<regVars, closeVars, sweepVars, handlerVars, relayVars, sideVars>>

Init ==
    /\ sessions = {}
    /\ status = [s \in SessionIds |-> "pending"]
    /\ gemini_session = [s \in SessionIds |-> FALSE]
    /\ connect_task = [s \in SessionIds |-> "none"]
    /\ created_at = [s \in SessionIds |-> 0]
    /\ now = 0
    /\ ticks = 0
    /\ nextId = 1
    /\ closePc = [c \in CloseCalls |-> "idle"]
    /\ closeTarget = [c \in CloseCalls |-> UnknownId]
    /\ closeError = [c \in CloseCalls |-> FALSE]
    /\ aexit_calls = [s \in SessionIds |-> 0]
    /\ close_warnings = {}
    /\ sweepPc = "sleeping"
    /\ sweepCur = UnknownId
    /\ to_remove = <<>>
    /\ sweepSaw = {}
    /\ hpc = [h \in Handlers |-> "idle"]
    /\ hsession = [h \in Handlers |-> UnknownId]
    /\ listen = [h \in Handlers |-> "none"]
    /\ listenFrame = [h \in Handlers |-> 0]
    /\ send = [h \in Handlers |-> "none"]
    /\ sendFrame = [h \in Handlers |-> 0]
    /\ recv = [h \in Handlers |-> "none"]
    /\ play = [h \in Handlers |-> "none"]
    /\ playFrame = [h \in Handlers |-> 0]
    /\ out_queue = [s \in SessionIds |-> <<>>]
    /\ audio_in_queue = [s \in SessionIds |-> <<>>]
    /\ should_stop = [h \in Handlers |-> FALSE]
    /\ clientFrames = 0
    /\ upstreamFrames = 0
    /\ put_log = [s \in SessionIds |-> <<>>]
    /\ recv_log = [s \in SessionIds |-> <<>>]
    /\ sent_upstream = [s \in SessionIds |-> <<>>]
    /\ written = [h \in Handlers |-> <<>>]
    /\ drained = {}
    /\ error_message = [s \in SessionIds |-> "None"]
    /\ connection_time_seconds = [s \in SessionIds |-> FALSE]
    /\ connected_at = [s \in SessionIds |-> FALSE]
    /\ tool_pc = [t \in ToolCalls |-> "none"]
    /\ tool_owner = [t \in ToolCalls |-> 0]
    /\ tool_n = [t \in ToolCalls |-> 0]
    /\ tool_call = [t \in ToolCalls |-> <<>>]
    /\ tool_i = [t \in ToolCalls |-> 0]
    /\ tool_raised = [t \in ToolCalls |-> <<>>]
    /\ function_responses = [t \in ToolCalls |-> <<>>]
    /\ tool_sent = [t \in ToolCalls |-> <<>>]
    /\ ui_log = [t \in ToolCalls |-> <<>>]
    /\ loop_blocked = 0
    /\ poll = NoPoll
    /\ connected_stamps = [s \in SessionIds |-> IF connected_at[s] THEN 1 ELSE 0]
    /\ stop_pending = [s \in SessionIds |-> {}]
    /\ released = <<>>

\* ------------------------------------------------------------- registry

\* The event loop is not inside a synchronous call of some coroutine: every
\* step of every coroutine needs it.
LoopFree == loop_blocked = 0

\* The fields of the registry a close_session call reads and writes.
Registry ==
    [sessions |-> sessions, status |-> status,
     connect_task |-> connect_task, saw |-> sweepSaw, error |-> FALSE,
     aexit |-> aexit_calls, warned |-> close_warnings]

\* session.status = v
SetStatus(R, s, v) == [R EXCEPT !.status[s] = v]

\* faulty variant of TaskDone: a task still running is taken for a finished one
TaskDoneAlways(t) == TRUE

\* asyncio.Task.done()
TaskDone(t) == t \in {"none", "done", "cancelled"}

\* faulty variant of create_session: the registry is keyed by something the
\* sessions share, so a second session takes the place of the first
create_session_keyed(limit) ==
    /\ LoopFree
    /\ nextId <= limit
    /\ sessions' = sessions \cup {1}
    /\ status' = [status EXCEPT ![1] = "pending"]
    /\ created_at' = [created_at EXCEPT ![1] = now]
    /\ connect_task' = [connect_task EXCEPT ![1] = "scheduled"]
    /\ nextId' = nextId + 1
    /\ UNCHANGED <<gemini_session, now, ticks>>
    /\ UNCHANGED <<closeVars, sweepVars, handlerVars, relayVars>>
    /\ UNCHANGED sideVars

\* create_session: register the session and schedule _connect_session.  The
\* id, the first 8 hex digits of a uuid4, is an id no earlier call drew:
\* nextId.  The lock is never held across an await, so taking it does not
\* suspend.
create_session(limit) ==
    /\ LoopFree
    /\ nextId <= limit
    /\ sessions' = sessions \cup {nextId}
    /\ status' = [status EXCEPT ![nextId] = "pending"]
    /\ created_at' = [created_at EXCEPT ![nextId] = now]
    /\ connect_task' = [connect_task EXCEPT ![nextId] = "scheduled"]
    /\ nextId' = nextId + 1
    /\ UNCHANGED <<gemini_session, now, ticks>>
    /\ UNCHANGED <<closeVars, sweepVars, handlerVars, relayVars>>
    /\ UNCHANGED sideVars

\* faulty variant of ConnectStart: the try block begins after the status is
\* set, and the exception of a missing API key escapes the task
ConnectStartEscapes(s) ==
    /\ LoopFree
    /\ connect_task[s] = "scheduled"
    /\ IF s \notin sessions
       THEN UNCHANGED status
       ELSE status' = [status EXCEPT ![s] = "connecting"]
    /\ connect_task' = [connect_task EXCEPT ![s] = "done"]
    /\ UNCHANGED <<sessions, gemini_session, created_at, now, ticks, nextId>>
    /\ UNCHANGED <<closeVars, sweepVars, handlerVars, relayVars>>
    /\ UNCHANGED sideVars

\* _connect_session, from its first step to `await connection.__aenter__()`.
\* (A ValueError of _get_client is caught by the same except branch as a
\* failed handshake: ConnectFail is that branch.)
ConnectStart(s) ==
    /\ LoopFree
    /\ connect_task[s] = "scheduled"
    /\ IF s \notin sessions
       THEN /\ connect_task' = [connect_task EXCEPT ![s] = "done"]
            /\ UNCHANGED status
       ELSE /\ status' = [status EXCEPT ![s] = "connecting"]
            /\ connect_task' = [connect_task EXCEPT ![s] = "awaiting"]
    /\ UNCHANGED <<sessions, gemini_session, created_at, now, ticks, nextId>>
    /\ UNCHANGED <<closeVars, sweepVars, handlerVars, relayVars>>
    /\ UNCHANGED sideVars

\* faulty variant of ConnectedHandle: the handle is not stored on the session
NoHandle == FALSE

\* The handle the session holds once __aenter__ has returned.
ConnectedHandle == TRUE

\* _connect_session after the handshake returned: READY, queues allocated.
ConnectSucceed(s) ==
    /\ LoopFree
    /\ connect_task[s] = "awaiting"
    /\ gemini_session' = [gemini_session EXCEPT ![s] = ConnectedHandle]
    /\ status' = [status EXCEPT ![s] = "ready"]
    /\ connect_task' = [connect_task EXCEPT ![s] = "done"]
    /\ out_queue' = [out_queue EXCEPT ![s] = <<>>]
    /\ audio_in_queue' = [audio_in_queue EXCEPT ![s] = <<>>]
    /\ connection_time_seconds' = [connection_time_seconds EXCEPT ![s] = TRUE]
    /\ connected_at' = [connected_at EXCEPT ![s] = TRUE]
    /\ connected_stamps' = [connected_stamps EXCEPT ![s] = @ + 1]
    /\ UNCHANGED error_message
    /\ UNCHANGED <<sessions, created_at, now, ticks, nextId>>
    /\ UNCHANGED <<closeVars, sweepVars, handlerVars, taskVars>>
    /\ UNCHANGED <<should_stop, clientFrames, upstreamFrames, put_log,
                   sent_upstream, written, drained,
                   recv_log>>
    /\ UNCHANGED <<toolVars, poll, released, stop_pending>>

\* faulty variant of ExceptionStr: the text of the exception is lost
ExceptionStrLost(e) == ""

\* str(e): the argument the exception was built with, the empty string for
\* an exception built without arguments.
ExceptionStr(e) == IF e.args = <<>> THEN "" ELSE e.args[1]

\* faulty variant of ConnectFail: the failure is recorded on every session
\* whose handshake is under way
ConnectFailShared(s) ==
    /\ LoopFree
    /\ connect_task[s] = "awaiting"
    /\ status' = [x \in SessionIds |->
                    IF x = s \/ status[x] = "connecting" THEN "error"
                    ELSE status[x]]
    /\ \E e \in HandshakeErrors :
         error_message' = [error_message EXCEPT ![s] = ExceptionStr(e)]
    /\ connection_time_seconds' = [connection_time_seconds EXCEPT ![s] = TRUE]
    /\ UNCHANGED connected_at
    /\ connect_task' = [connect_task EXCEPT ![s] = "done"]
    /\ UNCHANGED <<sessions, gemini_session, created_at, now, ticks, nextId>>
    /\ UNCHANGED <<closeVars, sweepVars, handlerVars, relayVars>>
    /\ UNCHANGED <<toolVars, callVars>>

\* faulty variant of ConnectFail: the time of the failure is stored in
\* connected_at
ConnectFailStamped(s) ==
    /\ LoopFree
    /\ connect_task[s] = "awaiting"
    /\ status' = [status EXCEPT ![s] = "error"]
    /\ \E e \in HandshakeErrors :
         error_message' = [error_message EXCEPT ![s] = ExceptionStr(e)]
    /\ connection_time_seconds' = [connection_time_seconds EXCEPT ![s] = TRUE]
    /\ connected_at' = [connected_at EXCEPT ![s] = TRUE]
    /\ connected_stamps' = [connected_stamps EXCEPT ![s] = @ + 1]
    /\ connect_task' = [connect_task EXCEPT ![s] = "done"]
    /\ UNCHANGED <<sessions, gemini_session, created_at, now, ticks, nextId>>
    /\ UNCHANGED <<closeVars, sweepVars, handlerVars, relayVars>>
    /\ UNCHANGED <<toolVars, poll, released, stop_pending>>

\* _connect_session when the handshake raised: the except branch.
ConnectFail(s) ==
    /\ LoopFree
    /\ connect_task[s] = "awaiting"
    /\ status' = [status EXCEPT ![s] = "error"]
    /\ \E e \in HandshakeErrors :
         error_message' = [error_message EXCEPT ![s] = ExceptionStr(e)]
    /\ connection_time_seconds' = [connection_time_seconds EXCEPT ![s] = TRUE]
    /\ UNCHANGED connected_at
    /\ connect_task' = [connect_task EXCEPT ![s] = "done"]
    /\ UNCHANGED <<sessions, gemini_session, created_at, now, ticks, nextId>>
    /\ UNCHANGED <<closeVars, sweepVars, handlerVars, relayVars>>
    /\ UNCHANGED <<toolVars, callVars>>

\* faulty variant of ConnectCancelled: the task catches the CancelledError
\* like any other exception and records a failed handshake
ConnectCancelSwallowed(s) ==
    /\ LoopFree
    /\ connect_task[s] = "cancel_requested"
    /\ connect_task' = [connect_task EXCEPT ![s] = "done"]
    /\ status' = [status EXCEPT ![s] = "error"]
    /\ UNCHANGED <<sessions, gemini_session, created_at, now, ticks, nextId>>
    /\ UNCHANGED <<closeVars, sweepVars, handlerVars, relayVars>>
    /\ UNCHANGED sideVars

\* _connect_session receiving the CancelledError close_session requested:
\* `except Exception` does not catch it, the task ends cancelled.
ConnectCancelled(s) ==
    /\ LoopFree
    /\ connect_task[s] = "cancel_requested"
    /\ connect_task' = [connect_task EXCEPT ![s] = "cancelled"]
    /\ UNCHANGED <<sessions, status, gemini_session, created_at, now, ticks,
                   nextId>>
    /\ UNCHANGED <<closeVars, sweepVars, handlerVars, relayVars>>
    /\ UNCHANGED sideVars

\* the ids create_session has handed out
Created == 1..(nextId - 1)

\* datetime.isoformat(): the text of a time
isoformat(t) == <<"isoformat", t>>

\* faulty variant of get_status: answers from the record of a session that
\* has left the registry
get_status_of_record(s) ==
    IF s \in Created
    THEN [session_id |-> s,
          status |-> status[s],
          created_at |-> isoformat(created_at[s]),
          connected_at |-> IF connected_at[s] THEN isoformat("connected_at")
                           ELSE "None",
          connection_time_seconds |-> IF connection_time_seconds[s]
                                      THEN "elapsed" ELSE "None",
          error_message |-> error_message[s]]
    ELSE [status |-> "not_found", session_id |-> s]

\* get_status: the dictionary the manager answers with (patient_id left out).
get_status(s) ==
    IF s \notin sessions
    THEN [status |-> "not_found", session_id |-> s]
    ELSE [session_id |-> s,
          status |-> status[s],
          created_at |-> isoformat(created_at[s]),
          connected_at |-> IF connected_at[s] THEN isoformat("connected_at")
                           ELSE "None",
          connection_time_seconds |-> IF connection_time_seconds[s]
                                      THEN "elapsed" ELSE "None",
          error_message |-> error_message[s]]

\* get_voice_session_status: the answer of GET /api/voice/status/{id}.
get_voice_session_status(s) ==
    LET answer == get_status(s)
    IN  IF answer.status = "not_found"
        THEN [id |-> s, http |-> 404, detail |-> "Session not found"]
        ELSE [id |-> s, http |-> 200, body |-> answer]

\* GET /api/voice/status/{id}: the endpoint has no await; the request is
\* answered in one run on the event loop.
GetStatus(s) ==
    /\ LoopFree
    /\ poll' = get_voice_session_status(s)
    /\ UNCHANGED <<released, stop_pending, connected_stamps>>
    /\ UNCHANGED <<regVars, closeVars, sweepVars, handlerVars, relayVars>>
    /\ UNCHANGED <<infoVars, toolVars>>

\* the clock
Tick(d) ==
    /\ ticks < MaxTicks
    /\ now' = now + d
    /\ ticks' = ticks + 1
    /\ UNCHANGED <<sessions, status, gemini_session, connect_task, created_at,
                   nextId>>
    /\ UNCHANGED <<closeVars, sweepVars, handlerVars, relayVars>>
    /\ UNCHANGED sideVars

\* ---------------------------------------------------------- close_session

\* faulty variant of Pop: self.sessions.pop(session_id), KeyError when absent
PopStrict(R, s) ==
    IF s \in R.sessions
    THEN [R EXCEPT !.sessions = @ \ {s}]
    ELSE [R EXCEPT !.error = TRUE]

\* self.sessions.pop(session_id, None)
Pop(R, s) == [R EXCEPT !.sessions = @ \ {s}]

\* close_session, last part: remove the entry under the lock and return.
close_remove(R, s) == [R |-> Pop(R, s), pc |-> "returned"]

\* close_session, middle part: `if session.gemini_session and hasattr(...)`
\* awaits the context manager's __aexit__, otherwise goes on to the removal.
close_handle(R, s) ==
    IF gemini_session[s]
    THEN [R |-> [R EXCEPT !.aexit[s] = @ + 1], pc |-> "await_aexit"]
    ELSE close_remove(R, s)

\* faulty variant of close_aexit_raised: the exception of __aexit__ is not
\* caught and leaves close_session
close_aexit_uncaught(R, s) ==
    [R |-> [R EXCEPT !.error = TRUE], pc |-> "returned"]

\* close_session, __aexit__ raised: `except Exception` logs a warning and
\* the call goes on to the removal.
close_aexit_raised(R, s) ==
    close_remove([R EXCEPT !.warned = @ \cup {s}], s)

\* The status close_session assigns to the session it found.
ClosedStatus(old) == "closed"

\* close_session, from the call to its first suspension (or to its return).
close_session(R, s) ==
    IF s \notin R.sessions
    THEN [R |-> R, pc |-> "returned"]
    ELSE LET R1 == SetStatus(R, s, ClosedStatus(R.status[s])) IN
         IF ~TaskDone(R.connect_task[s])
         THEN [R |-> [R1 EXCEPT !.connect_task[s] = "cancel_requested"],
               pc |-> "await_connect"]
         ELSE close_handle(R1, s)

ApplyRegistry(R) ==
    /\ sessions' = R.sessions
    /\ status' = R.status
    /\ connect_task' = R.connect_task
    /\ aexit_calls' = R.aexit
    /\ close_warnings' = R.warned

\* close_voice_session (DELETE /api/voice/session/{id}): the call of
\* close_session up to its first suspension.
CloseCall(c, s) ==
    /\ LoopFree
    /\ closePc[c] = "idle"
    /\ IF c = 1 THEN TRUE ELSE closePc[c - 1] # "idle"
    /\ LET r == close_session(Registry, s) IN
         /\ ApplyRegistry(r.R)
         /\ closePc' = [closePc EXCEPT ![c] = r.pc]
         /\ closeError' = [closeError EXCEPT ![c] = r.R.error]
    /\ closeTarget' = [closeTarget EXCEPT ![c] = s]
    /\ UNCHANGED <<gemini_session, created_at, now, ticks, nextId>>
    /\ UNCHANGED <<sweepVars, handlerVars, relayVars>>
    /\ UNCHANGED sideVars

\* close_session resumed after `await session._connect_task`.
CloseResume(c) ==
    /\ LoopFree
    /\ closePc[c] = "await_connect"
    /\ TaskDone(connect_task[closeTarget[c]])
    /\ LET r == close_handle(Registry, closeTarget[c]) IN
         /\ ApplyRegistry(r.R)
         /\ closePc' = [closePc EXCEPT ![c] = r.pc]
         /\ closeError' = [closeError EXCEPT ![c] = r.R.error]
    /\ UNCHANGED <<gemini_session, created_at, now, ticks, nextId,
                   closeTarget>>
    /\ UNCHANGED <<sweepVars, handlerVars, relayVars>>
    /\ UNCHANGED sideVars

\* close_session resumed after `await session._connection_cm.__aexit__()`
\* (an exception of __aexit__ is caught and logged).
CloseFinish(c) ==
    /\ LoopFree
    /\ closePc[c] = "await_aexit"
    /\ LET r == close_remove(Registry, closeTarget[c]) IN
         /\ ApplyRegistry(r.R)
         /\ closePc' = [closePc EXCEPT ![c] = r.pc]
         /\ closeError' = [closeError EXCEPT ![c] = r.R.error]
    /\ UNCHANGED <<gemini_session, created_at, now, ticks, nextId,
                   closeTarget>>
    /\ UNCHANGED <<sweepVars, handlerVars, relayVars>>
    /\ UNCHANGED sideVars

\* close_session resumed by an exception of __aexit__, which it catches.
CloseAexitRaised(c) ==
    /\ LoopFree
    /\ closePc[c] = "await_aexit"
    /\ LET r == close_aexit_raised(Registry, closeTarget[c]) IN
         /\ ApplyRegistry(r.R)
         /\ closePc' = [closePc EXCEPT ![c] = r.pc]
         /\ closeError' = [closeError EXCEPT ![c] = r.R.error]
    /\ UNCHANGED <<gemini_session, created_at, now, ticks, nextId,
                   closeTarget>>
    /\ UNCHANGED <<sweepVars, handlerVars, relayVars>>
    /\ UNCHANGED sideVars

\* close_voice_session: what DELETE request c is answered, once its
\* close_session call has returned.  (An exception leaving the call is
\* answered by the framework with 500.)
close_voice_session(c) ==
    IF closePc[c] # "returned" THEN NoPoll
    ELSE IF closeError[c] THEN [http |-> 500]
    ELSE [http |-> 200,
          body |-> [status |-> "closed", session_id |-> closeTarget[c]]]

\* --------------------------------------------------------------- sweeper

RECURSIVE SortedSeq(_)
SortedSeq(S) ==
    IF S = {} THEN <<>>
    ELSE LET m == CHOOSE x \in S : \A y \in S : x <= y
         IN <<m>> \o SortedSeq(S \ {m})

\* faulty variant of Sweepable: a session is swept at the TTL already
SweepableAtTtl(age, st) ==
    age >= max_age_seconds /\ st \in {"ready", "error", "closed"}

\* faulty variant of Sweepable: sessions whose handshake failed are left
SweepableReadyOnly(age, st) ==
    age > max_age_seconds /\ st \in {"ready", "closed"}

\* cleanup_old_sessions: the test that puts a session on to_remove.
Sweepable(age, st) ==
    age > max_age_seconds /\ st \in {"ready", "error", "closed"}

\* cleanup_old_sessions: the ids collected under the lock, in dict order.
SweepSelect ==
    SortedSeq({s \in sessions : Sweepable(now - created_at[s], status[s])})

\* What the sweeper sees of a session when it calls close_session on it.
Seen(R, s) == IF s \in R.sessions THEN R.status[s] ELSE "not_found"

\* `for session_id in to_remove: await self.close_session(session_id)`:
\* runs until one close_session call suspends or the list is exhausted.
RECURSIVE SweepLoop(_, _)
SweepLoop(R, queue) ==
    IF queue = <<>>
    THEN [R |-> R, pc |-> "sleeping", cur |-> UnknownId, queue |-> <<>>]
    ELSE LET s == Head(queue)
             r == close_session([R EXCEPT !.saw = @ \cup {<<s, Seen(R, s)>>}], s)
         IN IF r.R.error
            THEN [R |-> r.R, pc |-> "crashed", cur |-> s, queue |-> Tail(queue)]
            ELSE IF r.pc = "returned"
            THEN SweepLoop(r.R, Tail(queue))
            ELSE [R |-> r.R, pc |-> r.pc, cur |-> s, queue |-> Tail(queue)]

\* The sweeper's close_session call went one part further.
SweepContinue(r) ==
    IF r.R.error
    THEN [R |-> r.R, pc |-> "crashed", cur |-> sweepCur, queue |-> to_remove]
    ELSE IF r.pc = "returned"
    THEN SweepLoop(r.R, to_remove)
    ELSE [R |-> r.R, pc |-> r.pc, cur |-> sweepCur, queue |-> to_remove]

ApplySweep(r) ==
    /\ ApplyRegistry(r.R)
    /\ sweepSaw' = r.R.saw
    /\ sweepPc' = r.pc
    /\ sweepCur' = r.cur
    /\ to_remove' = r.queue
    /\ UNCHANGED <<gemini_session, created_at, now, ticks, nextId>>
    /\ UNCHANGED <<closePc, closeTarget, closeError, handlerVars, relayVars>>

\* cleanup_loop wakes up and runs cleanup_old_sessions.
cleanup_old_sessions ==
    /\ LoopFree
    /\ sweepPc = "sleeping"
    /\ ApplySweep(SweepLoop(Registry, SweepSelect))
    /\ UNCHANGED sideVars

\* the sweeper's close_session resumed after `await session._connect_task`
SweepResume ==
    /\ LoopFree
    /\ sweepPc = "await_connect"
    /\ TaskDone(connect_task[sweepCur])
    /\ ApplySweep(SweepContinue(close_handle(Registry, sweepCur)))
    /\ UNCHANGED sideVars

\* the sweeper's close_session resumed after `await ...__aexit__()`
SweepFinish ==
    /\ LoopFree
    /\ sweepPc = "await_aexit"
    /\ ApplySweep(SweepContinue(close_remove(Registry, sweepCur)))
    /\ UNCHANGED sideVars

\* the sweeper's close_session resumed by an exception of __aexit__
SweepAexitRaised ==
    /\ LoopFree
    /\ sweepPc = "await_aexit"
    /\ ApplySweep(SweepContinue(close_aexit_raised(Registry, sweepCur)))
    /\ UNCHANGED sideVars

\* ------------------------------------- websocket_voice_session (server.py)

\* faulty variant of CanAttach: a session in use is handed out as well
CanAttachInUse(s) == s \in sessions /\ status[s] \in {"ready", "in_use"}

\* get_session: the test that lets the caller have the session.
CanAttach(s) == s \in sessions /\ status[s] = "ready"

\* get_session: the status a successful call leaves.
AttachedStatus == "in_use"

\* faulty variant of ReleaseStatus: the status is not tested before the release
ReleaseAlways(st) == "ready"

\* release_session: the status it leaves a session of status st in.
ReleaseStatus(st) == IF st = "in_use" THEN "ready" ELSE st

\* faulty variant of release_session: the status is not tested, any session
\* of the registry is set READY
release_session_any(s) ==
    IF s \in sessions
    THEN status' = [status EXCEPT ![s] = "ready"]
    ELSE UNCHANGED status

\* release_session(s), on the registry variables.
release_session(s) ==
    IF s \in sessions
    THEN status' = [status EXCEPT ![s] = ReleaseStatus(status[s])]
    ELSE UNCHANGED status

\* `await voice_session_manager.release_session(session_id)` by itself: the
\* coroutine has no await inside and runs in one step.
ReleaseCall(s) ==
    /\ LoopFree
    /\ Len(released) < MaxReleaseCalls
    /\ release_session(s)
    /\ released' = Append(released, <<s, Seen(Registry, s)>>)
    /\ UNCHANGED <<sessions, gemini_session, connect_task, created_at, now,
                   ticks, nextId>>
    /\ UNCHANGED <<closeVars, sweepVars, handlerVars, relayVars>>
    /\ UNCHANGED <<infoVars, toolVars, poll, stop_pending, connected_stamps>>

\* faulty variant of Attach: the refusal sits inside the try/finally, so a
\* refused request runs release_session as well
AttachReleasing(h, s) ==
    /\ LoopFree
    /\ hpc[h] = "idle"
    /\ IF h = 1 THEN TRUE ELSE hpc[h - 1] # "idle"
    /\ hsession' = [hsession EXCEPT ![h] = s]
    /\ IF CanAttach(s)
       THEN /\ status' = [status EXCEPT ![s] = AttachedStatus]
            /\ hpc' = [hpc EXCEPT ![h] = "accepting"]
       ELSE /\ hpc' = [hpc EXCEPT ![h] = "refused"]
            /\ release_session(s)
    /\ UNCHANGED <<sessions, gemini_session, connect_task, created_at, now,
                   ticks, nextId>>
    /\ UNCHANGED <<closeVars, sweepVars, relayVars>>
    /\ UNCHANGED sideVars

\* websocket_voice_session up to `await websocket.close(4004)` (refused) or
\* `await websocket.accept()` (get_session returned the session).
Attach(h, s) ==
    /\ LoopFree
    /\ hpc[h] = "idle"
    /\ IF h = 1 THEN TRUE ELSE hpc[h - 1] # "idle"
    /\ hsession' = [hsession EXCEPT ![h] = s]
    /\ IF CanAttach(s)
       THEN /\ status' = [status EXCEPT ![s] = AttachedStatus]
            /\ hpc' = [hpc EXCEPT ![h] = "accepting"]
       ELSE /\ hpc' = [hpc EXCEPT ![h] = "refused"]
            /\ UNCHANGED status
    /\ UNCHANGED <<sessions, gemini_session, connect_task, created_at, now,
                   ticks, nextId>>
    /\ UNCHANGED <<closeVars, sweepVars, relayVars>>
    /\ UNCHANGED sideVars

\* accept() returned: the handler is built on the session's handle and
\* queues, run_with_session starts and suspends in send_status_to_ui.
AcceptDone(h) ==
    /\ LoopFree
    /\ hpc[h] = "accepting"
    /\ hpc' = [hpc EXCEPT ![h] = "greeting"]
    /\ UNCHANGED <<regVars, closeVars, sweepVars, hsession, relayVars>>
    /\ UNCHANGED sideVars

\* run_with_session: the TaskGroup is entered, the four tasks are created
\* and the body suspends in `await asyncio.Future()`.
RelayStart(h) ==
    /\ LoopFree
    /\ hpc[h] = "greeting"
    /\ hpc' = [hpc EXCEPT ![h] = "relay"]
    /\ listen' = [listen EXCEPT ![h] = "receiving"]
    /\ send' = [send EXCEPT ![h] = "get"]
    /\ recv' = [recv EXCEPT ![h] = "receiving"]
    /\ play' = [play EXCEPT ![h] = "get"]
    /\ UNCHANGED <<regVars, closeVars, sweepVars, hsession, listenFrame,
                   sendFrame, playFrame, queueVars>>
    /\ UNCHANGED sideVars

\* A task of the group once the group has called cancel() on it.
Aborted(t) == IF t \in {"ended", "disconnected"} THEN t ELSE "cancelling"

\* A task of the group once it has processed the CancelledError.
Reaped(t) == IF t = "cancelling" THEN "cancelled" ELSE t

\* faulty variant of HandlerCancel: the session is released as soon as the
\* group starts cancelling its children, before they have ended
HandlerCancelReleasing(h) ==
    /\ LoopFree
    /\ hpc[h] \in {"accepting", "greeting", "relay"}
    /\ IF hpc[h] = "accepting"
       THEN /\ hpc' = [hpc EXCEPT ![h] = "crashed"]
            /\ UNCHANGED <<status, taskVars>>
       ELSE IF hpc[h] = "greeting"
       THEN /\ hpc' = [hpc EXCEPT ![h] = "done"]
            /\ release_session(hsession[h])
            /\ UNCHANGED taskVars
       ELSE /\ hpc' = [hpc EXCEPT ![h] = "aborting"]
            /\ listen' = [listen EXCEPT ![h] = Aborted(@)]
            /\ send' = [send EXCEPT ![h] = Aborted(@)]
            /\ recv' = [recv EXCEPT ![h] = Aborted(@)]
            /\ play' = [play EXCEPT ![h] = Aborted(@)]
            /\ release_session(hsession[h])
            /\ UNCHANGED <<listenFrame, sendFrame, playFrame>>
    /\ UNCHANGED <<sessions, gemini_session, connect_task, created_at, now,
                   ticks, nextId>>
    /\ UNCHANGED <<closeVars, sweepVars, hsession, queueVars>>
    /\ UNCHANGED sideVars

\* The task running websocket_voice_session is cancelled from outside (the
\* server shuts the connection's task down).  In accept() nothing catches
\* it; in send_status_to_ui run_with_session catches it and the endpoint's
\* finally releases the session; in the TaskGroup body the group cancels
\* its children and waits for them.
HandlerCancel(h) ==
    /\ LoopFree
    /\ hpc[h] \in {"accepting", "greeting", "relay"}
    /\ IF hpc[h] = "accepting"
       THEN /\ hpc' = [hpc EXCEPT ![h] = "crashed"]
            /\ UNCHANGED <<status, taskVars>>
       ELSE IF hpc[h] = "greeting"
       THEN /\ hpc' = [hpc EXCEPT ![h] = "done"]
            /\ release_session(hsession[h])
            /\ UNCHANGED taskVars
       ELSE /\ hpc' = [hpc EXCEPT ![h] = "aborting"]
            /\ listen' = [listen EXCEPT ![h] = Aborted(@)]
            /\ send' = [send EXCEPT ![h] = Aborted(@)]
            /\ recv' = [recv EXCEPT ![h] = Aborted(@)]
            /\ play' = [play EXCEPT ![h] = Aborted(@)]
            /\ UNCHANGED <<status, listenFrame, sendFrame, playFrame>>
    /\ UNCHANGED <<sessions, gemini_session, connect_task, created_at, now,
                   ticks, nextId>>
    /\ UNCHANGED <<closeVars, sweepVars, hsession, queueVars>>
    /\ UNCHANGED sideVars

\* The children have ended: TaskGroup.__aexit__ re-raises CancelledError,
\* run_with_session returns and the endpoint's finally releases the session.
HandlerExit(h) ==
    /\ LoopFree
    /\ hpc[h] = "aborting"
    /\ hpc' = [hpc EXCEPT ![h] = "done"]
    /\ listen' = [listen EXCEPT ![h] = Reaped(@)]
    /\ send' = [send EXCEPT ![h] = Reaped(@)]
    /\ recv' = [recv EXCEPT ![h] = Reaped(@)]
    /\ play' = [play EXCEPT ![h] = Reaped(@)]
    /\ release_session(hsession[h])
    /\ UNCHANGED <<sessions, gemini_session, connect_task, created_at, now,
                   ticks, nextId>>
    /\ UNCHANGED <<closeVars, sweepVars, hsession, listenFrame, sendFrame,
                   playFrame, queueVars>>
    /\ UNCHANGED sideVars

\* ------------------------------------------- relay (VoiceWebSocketHandler)

\* faulty variant of QueueFull: a queue built without maxsize
QueueNeverFull(q) == FALSE

\* asyncio.Queue.full() of the session's out_queue (maxsize=10).
QueueFull(q) == Len(q) >= out_queue_maxsize

\* faulty variant of QueuePut: the item is put in front of the others
QueuePutFront(q, f) == <<f>> \o q

\* faulty variant of QueueGet: the newest item is handed out (LifoQueue)
QueueGetLast(q) == [item |-> q[Len(q)], rest |-> SubSeq(q, 1, Len(q) - 1)]

\* asyncio.Queue.get: the item handed out and the queue left behind.
QueueGet(q) == [item |-> Head(q), rest |-> Tail(q)]

\* asyncio.Queue.put_nowait
QueuePut(q, f) == Append(q, f)

Range(q) == {q[i] : i \in 1..Len(q)}

\* faulty variant of stop_speaking: one get_nowait() instead of the loop
stop_speaking_once(q) ==
    IF q = <<>> THEN [rest |-> q, removed |-> {}]
    ELSE [rest |-> Tail(q), removed |-> {Head(q)}]

\* stop_speaking: get_nowait() until the queue is empty.
stop_speaking(q) == [rest |-> <<>>, removed |-> {q[i] : i \in 1..Len(q)}]

\* close_session has run __aexit__ on the session's connection and removed
\* the entry: the handle the relay was given is a closed connection, on
\* which send and receive can only raise.
HandleClosed(s) == gemini_session[s] /\ s \notin sessions

relayFrame == <<regVars, closeVars, sweepVars, handlerVars>>

\* listen_audio: a binary message arrives, the frame is put on out_queue
\* (or the task blocks in put() while the queue is full).
listen_bytes(h, limit) ==
    /\ LoopFree
    /\ hpc[h] = "relay" /\ listen[h] = "receiving"
    /\ clientFrames < limit
    /\ clientFrames' = clientFrames + 1
    /\ LET s == hsession[h]
           f == clientFrames + 1
       IN IF QueueFull(out_queue[s])
          THEN /\ listen' = [listen EXCEPT ![h] = "put_wait"]
               /\ listenFrame' = [listenFrame EXCEPT ![h] = f]
               /\ UNCHANGED <<out_queue, put_log,
                   recv_log>>
          ELSE /\ out_queue' = [out_queue EXCEPT ![s] = QueuePut(@, f)]
               /\ put_log' = [put_log EXCEPT ![s] = Append(@, f)]
               /\ UNCHANGED <<listen, listenFrame>>
    /\ UNCHANGED <<relayFrame, send, sendFrame, recv, play, playFrame,
                   audio_in_queue, should_stop, upstreamFrames, sent_upstream,
                   written, drained,
                   recv_log>>
    /\ UNCHANGED sideVars

\* listen_audio: a binary message, of the few the relay specifications let
\* the client send.
ListenBytes(h) == listen_bytes(h, MaxClientFrames)

\* listen_audio: a binary message, of the many a client sends to a slow
\* upstream.
ListenBurst(h) == listen_bytes(h, MaxBurstFrames)

\* listen_audio blocked in put(): a slot is free, the frame goes in.
ListenPutResume(h) ==
    /\ LoopFree
    /\ hpc[h] = "relay" /\ listen[h] = "put_wait"
    /\ ~QueueFull(out_queue[hsession[h]])
    /\ out_queue' = [out_queue EXCEPT ![hsession[h]] = QueuePut(@, listenFrame[h])]
    /\ put_log' = [put_log EXCEPT ![hsession[h]] = Append(@, listenFrame[h])]
    /\ listen' = [listen EXCEPT ![h] = "receiving"]
    /\ listenFrame' = [listenFrame EXCEPT ![h] = 0]
    /\ UNCHANGED <<relayFrame, send, sendFrame, recv, play, playFrame,
                   audio_in_queue, should_stop, clientFrames, upstreamFrames,
                   sent_upstream, written, drained,
                   recv_log>>
    /\ UNCHANGED sideVars

\* listen_audio: the text message {"type": "stop"} arrives.
ListenStop(h) ==
    /\ LoopFree
    /\ hpc[h] = "relay" /\ listen[h] = "receiving"
    /\ LET s == hsession[h]
           r == stop_speaking(audio_in_queue[s])
       IN /\ audio_in_queue' = [audio_in_queue EXCEPT ![s] = r.rest]
          /\ drained' = drained \cup r.removed
          /\ stop_pending' = [stop_pending EXCEPT ![s] =
                 @ \cup (Range(recv_log[s])
                          \ UNION {Range(written[g]) : g \in Handlers})]
    /\ should_stop' = [should_stop EXCEPT ![h] = TRUE]
    /\ UNCHANGED <<relayFrame, taskVars, out_queue, clientFrames,
                   upstreamFrames, put_log, sent_upstream, written,
                   recv_log>>
    /\ UNCHANGED <<infoVars, toolVars, poll, released, connected_stamps>>

\* listen_audio: the client is gone; both except branches raise
\* asyncio.CancelledError, which ends this task as a cancelled task.  A
\* TaskGroup ignores a child that ends cancelled.
ListenDisconnect(h) ==
    /\ LoopFree
    /\ hpc[h] = "relay" /\ listen[h] = "receiving"
    /\ listen' = [listen EXCEPT ![h] = "disconnected"]
    /\ UNCHANGED <<relayFrame, listenFrame, send, sendFrame, recv, play,
                   playFrame, out_queue, audio_in_queue, should_stop,
                   clientFrames, upstreamFrames, put_log, sent_upstream,
                   written, drained,
                   recv_log>>
    /\ UNCHANGED sideVars

\* send_audio_to_gemini: out_queue.get() hands out a frame and the task
\* suspends in session.send().
SendGet(h) ==
    /\ LoopFree
    /\ hpc[h] = "relay" /\ send[h] = "get"
    /\ out_queue[hsession[h]] # <<>>
    /\ LET g == QueueGet(out_queue[hsession[h]])
       IN /\ sendFrame' = [sendFrame EXCEPT ![h] = g.item]
          /\ out_queue' = [out_queue EXCEPT ![hsession[h]] = g.rest]
    /\ send' = [send EXCEPT ![h] = "sending"]
    /\ UNCHANGED <<relayFrame, listen, listenFrame, recv, play, playFrame,
                   audio_in_queue, should_stop, clientFrames, upstreamFrames,
                   put_log, sent_upstream, written, drained,
                   recv_log>>
    /\ UNCHANGED sideVars

\* send_audio_to_gemini: session.send() returned; the loop takes the next
\* frame if there is one, otherwise suspends in get().
SendDone(h) ==
    /\ LoopFree
    /\ hpc[h] = "relay" /\ send[h] = "sending"
    /\ ~HandleClosed(hsession[h])
    /\ sent_upstream' = [sent_upstream EXCEPT ![hsession[h]] = Append(@, sendFrame[h])]
    /\ IF out_queue[hsession[h]] # <<>>
       THEN LET g == QueueGet(out_queue[hsession[h]])
            IN /\ sendFrame' = [sendFrame EXCEPT ![h] = g.item]
               /\ out_queue' = [out_queue EXCEPT ![hsession[h]] = g.rest]
               /\ UNCHANGED send
       ELSE /\ send' = [send EXCEPT ![h] = "get"]
            /\ sendFrame' = [sendFrame EXCEPT ![h] = 0]
            /\ UNCHANGED out_queue
    /\ UNCHANGED <<relayFrame, listen, listenFrame, recv, play, playFrame,
                   audio_in_queue, should_stop, clientFrames, upstreamFrames,
                   put_log, written, drained,
                   recv_log>>
    /\ UNCHANGED sideVars

\* send_audio_to_gemini: session.send() raised; the exception is logged and
\* the task returns normally.
SendFail(h) ==
    /\ LoopFree
    /\ hpc[h] = "relay" /\ send[h] = "sending"
    /\ send' = [send EXCEPT ![h] = "ended"]
    /\ sendFrame' = [sendFrame EXCEPT ![h] = 0]
    /\ UNCHANGED <<relayFrame, listen, listenFrame, recv, play, playFrame,
                   out_queue, audio_in_queue, should_stop, clientFrames,
                   upstreamFrames, put_log, sent_upstream, written, drained,
                   recv_log>>
    /\ UNCHANGED sideVars

\* receive_audio: the upstream yields a response with audio data.
recv_audio(h, limit) ==
    /\ LoopFree
    /\ hpc[h] = "relay" /\ recv[h] = "receiving"
    /\ ~HandleClosed(hsession[h])
    /\ upstreamFrames < limit
    /\ upstreamFrames' = upstreamFrames + 1
    /\ audio_in_queue' = [audio_in_queue EXCEPT
                            ![hsession[h]] = QueuePut(@, upstreamFrames + 1)]
    /\ recv_log' = [recv_log EXCEPT ![hsession[h]] = Append(@, upstreamFrames + 1)]
    /\ UNCHANGED <<relayFrame, taskVars, out_queue, should_stop, clientFrames,
                   put_log, sent_upstream, written, drained>>
    /\ UNCHANGED sideVars

\* receive_audio: audio data, of the few the relay specifications let the
\* upstream produce.
RecvAudio(h) == recv_audio(h, MaxUpstreamFrames)

\* listen_audio and receive_audio with one frame each way, for two relays
\* side by side.
ListenOne(h) == listen_bytes(h, IsolationFrames)

RecvOne(h) == recv_audio(h, IsolationFrames)

\* receive_audio: the upstream stream raised; logged, the task returns.
RecvFail(h) ==
    /\ LoopFree
    /\ hpc[h] = "relay" /\ recv[h] = "receiving"
    /\ recv' = [recv EXCEPT ![h] = "ended"]
    /\ UNCHANGED <<relayFrame, listen, listenFrame, send, sendFrame, play,
                   playFrame, out_queue, audio_in_queue, should_stop,
                   clientFrames, upstreamFrames, put_log, sent_upstream,
                   written, drained,
                   recv_log>>
    /\ UNCHANGED sideVars

\* play_audio: audio_in_queue.get() hands out a frame and the task suspends
\* in websocket.send_bytes().
PlayGet(h) ==
    /\ LoopFree
    /\ hpc[h] = "relay" /\ play[h] = "get"
    /\ audio_in_queue[hsession[h]] # <<>>
    /\ LET g == QueueGet(audio_in_queue[hsession[h]])
       IN /\ playFrame' = [playFrame EXCEPT ![h] = g.item]
          /\ audio_in_queue' = [audio_in_queue EXCEPT ![hsession[h]] = g.rest]
    /\ play' = [play EXCEPT ![h] = "writing"]
    /\ UNCHANGED <<relayFrame, listen, listenFrame, send, sendFrame, recv,
                   out_queue, should_stop, clientFrames, upstreamFrames,
                   put_log, sent_upstream, written, drained,
                   recv_log>>
    /\ UNCHANGED sideVars

\* play_audio: send_bytes() returned; the loop takes the next frame if there
\* is one, otherwise suspends in get().
PlayDone(h) ==
    /\ LoopFree
    /\ hpc[h] = "relay" /\ play[h] = "writing"
    /\ written' = [written EXCEPT ![h] = Append(@, playFrame[h])]
    /\ IF audio_in_queue[hsession[h]] # <<>>
       THEN LET g == QueueGet(audio_in_queue[hsession[h]])
            IN /\ playFrame' = [playFrame EXCEPT ![h] = g.item]
               /\ audio_in_queue' = [audio_in_queue EXCEPT ![hsession[h]] = g.rest]
               /\ UNCHANGED play
       ELSE /\ play' = [play EXCEPT ![h] = "get"]
            /\ playFrame' = [playFrame EXCEPT ![h] = 0]
            /\ UNCHANGED audio_in_queue
    /\ UNCHANGED <<relayFrame, listen, listenFrame, send, sendFrame, recv,
                   out_queue, should_stop, clientFrames, upstreamFrames,
                   put_log, sent_upstream, drained,
                   recv_log>>
    /\ UNCHANGED sideVars

\* play_audio: send_bytes() raised; logged, the task returns normally.
PlayFail(h) ==
    /\ LoopFree
    /\ hpc[h] = "relay" /\ play[h] = "writing"
    /\ play' = [play EXCEPT ![h] = "ended"]
    /\ playFrame' = [playFrame EXCEPT ![h] = 0]
    /\ UNCHANGED <<relayFrame, listen, listenFrame, send, sendFrame, recv,
                   out_queue, audio_in_queue, should_stop, clientFrames,
                   upstreamFrames, put_log, sent_upstream, written, drained,
                   recv_log>>
    /\ UNCHANGED sideVars

\* ------------------------------------------- tool calls (handle_tool_call)

\* Exceptions a tool handler can raise: a failed request of canvas_ops, a
\* timeout raised without arguments.
ToolErrors ==
    {[type |-> "Exception", args |-> <<"HTTP 500">>],
     [type |-> "TimeoutError", args |-> <<>>]}

\* tool_raised of a function call whose handler returned
NotRaised == [type |-> "None", args |-> <<>>]

\* The names the dispatch of handle_tool_call knows.
KnownTools ==
    {"get_patient_data", "focus_board_item", "create_task", "send_to_easl",
     "generate_dili_diagnosis", "generate_patient_report",
     "generate_legal_report", "create_schedule", "send_notification",
     "create_lab_results", "create_agent_result"}

\* The names the upstream asks for: a declared tool, and one the dispatch
\* does not know.
ToolNames == {"create_task", "order_supplies"}

\* A Python str, by the parts it was formatted from.
Str(parts) == [type |-> "str", text |-> parts]

\* json.dumps(v): the text of a dict.
json_dumps(v) == Str(<<"json", v.text>>)

\* What the board's API answers to a handler: a dict.
ApiResponse == [type |-> "dict", text |-> <<"status", "success">>]

\* faulty variant of ErrorResult: the exception's text is left out
ErrorResultBlank(e) == Str(<<"Error executing", "">>)

\* result = f"Error executing {function_name}: {str(tool_error)}"
ErrorResult(e) == Str(<<"Error executing", ExceptionStr(e)>>)

\* The result of a handler that returned: result = json.dumps({...}).
OkResult == json_dumps(ApiResponse)

\* result = f"Unknown tool: {function_name}"
UnknownResult(name) == Str(<<"Unknown tool", name>>)

\* faulty variant of FunctionResponse: the response is built without the
\* name of the function
FunctionResponseUnnamed(fc, result) ==
    [id |-> fc.id, name |-> "", response |-> [result |-> result]]

\* types.FunctionResponse(id=fc.id, name=function_name,
\*                        response={"result": result})
FunctionResponse(fc, result) ==
    [id |-> fc.id, name |-> fc.name, response |-> [result |-> result]]

\* fc of the iteration task t is in
CurrentCall(t) == tool_call[t][tool_i[t]]

toolFrame == <<regVars, closeVars, sweepVars, handlerVars, relayVars,
               infoVars, callVars>>

\* receive_audio: the upstream yields a response with a tool_call;
\* asyncio.create_task(self.handle_tool_call(...)) and the loop goes on.
recv_tool_call(h, t, n, asked) ==
    /\ LoopFree
    /\ hpc[h] = "relay" /\ recv[h] = "receiving"
    /\ ~HandleClosed(hsession[h])
    /\ tool_pc[t] = "none"
    /\ IF t = 1 THEN TRUE ELSE tool_pc[t - 1] # "none"
    /\ tool_pc' = [tool_pc EXCEPT ![t] = "created"]
    /\ tool_owner' = [tool_owner EXCEPT ![t] = h]
    /\ tool_n' = [tool_n EXCEPT ![t] = n]
    /\ \E names \in [1..n -> asked] :
         tool_call' = [tool_call EXCEPT ![t] =
                          [i \in 1..n |-> [id |-> <<t, i>>, name |-> names[i]]]]
    /\ UNCHANGED <<tool_i, tool_raised, function_responses, tool_sent, ui_log,
                   loop_blocked>>
    /\ UNCHANGED toolFrame

\* receive_audio: a tool_call for tools the dispatch knows.
RecvToolCall(h, t, n) == recv_tool_call(h, t, n, {"create_task"})

\* receive_audio: a tool_call for any of the names the upstream asks for.
RecvAnyToolCall(h, t, n) == recv_tool_call(h, t, n, ToolNames)

\* handle_tool_call, first run: the first function call, up to
\* `await self.send_tool_notification(function_name, "executing")`.
ToolStart(t) ==
    /\ LoopFree
    /\ tool_pc[t] = "created"
    /\ tool_i' = [tool_i EXCEPT ![t] = 1]
    /\ tool_pc' = [tool_pc EXCEPT ![t] = "notify_executing"]
    /\ UNCHANGED <<tool_owner, tool_n, tool_call, tool_raised, function_responses,
                   tool_sent, ui_log, loop_blocked>>
    /\ UNCHANGED toolFrame

\* The "executing" notification is out; the handler of the function runs up
\* to its first await.  A name the dispatch does not know has no handler:
\* the else branch sets the result, the response is appended and the task
\* suspends in the "completed" notification.
ToolExecuting(t) ==
    /\ LoopFree
    /\ tool_pc[t] = "notify_executing"
    /\ ui_log' = [ui_log EXCEPT ![t] = Append(@, <<tool_i[t], "executing">>)]
    /\ IF CurrentCall(t).name \in KnownTools
       THEN /\ tool_pc' = [tool_pc EXCEPT ![t] = "handler"]
            /\ UNCHANGED <<tool_raised, function_responses>>
       ELSE /\ tool_pc' = [tool_pc EXCEPT ![t] = "notify_completed"]
            /\ tool_raised' = [tool_raised EXCEPT ![t] = Append(@, NotRaised)]
            /\ function_responses' =
                 [function_responses EXCEPT
                    ![t] = Append(@, FunctionResponse(CurrentCall(t),
                              UnknownResult(CurrentCall(t).name)))]
    /\ UNCHANGED <<tool_owner, tool_n, tool_call, tool_i, tool_sent,
                   loop_blocked>>
    /\ UNCHANGED toolFrame

\* The handler calls a synchronous client on the loop's thread
\* (model.generate_content, requests.post): nothing else runs until the
\* call returns.
ToolBlock(t) ==
    /\ LoopFree
    /\ tool_pc[t] = "handler"
    /\ loop_blocked' = t
    /\ tool_pc' = [tool_pc EXCEPT ![t] = "sync"]
    /\ UNCHANGED <<tool_owner, tool_n, tool_call, tool_i, tool_raised,
                   function_responses, tool_sent, ui_log>>
    /\ UNCHANGED toolFrame

\* The synchronous call returns; the handler goes on to its next await
\* ("resumed": the rest of the handler is awaits only).
ToolUnblock(t) ==
    /\ loop_blocked = t
    /\ loop_blocked' = 0
    /\ tool_pc' = [tool_pc EXCEPT ![t] = "resumed"]
    /\ UNCHANGED <<tool_owner, tool_n, tool_call, tool_i, tool_raised,
                   function_responses, tool_sent, ui_log>>
    /\ UNCHANGED toolFrame

\* The handler returned: the response is appended and the task suspends in
\* send_tool_notification(function_name, "completed", result).
ToolReturn(t) ==
    /\ LoopFree
    /\ tool_pc[t] \in {"handler", "resumed"}
    /\ tool_raised' = [tool_raised EXCEPT ![t] = Append(@, NotRaised)]
    /\ function_responses' =
         [function_responses EXCEPT
            ![t] = Append(@, FunctionResponse(CurrentCall(t), OkResult))]
    /\ tool_pc' = [tool_pc EXCEPT ![t] = "notify_completed"]
    /\ UNCHANGED <<tool_owner, tool_n, tool_call, tool_i, tool_sent, ui_log, loop_blocked>>
    /\ UNCHANGED toolFrame

\* The handler raised: `except Exception as tool_error` builds the result
\* and suspends in send_tool_notification(function_name, "failed", result).
ToolRaise(t, e) ==
    /\ LoopFree
    /\ tool_pc[t] \in {"handler", "resumed"}
    /\ tool_raised' = [tool_raised EXCEPT ![t] = Append(@, e)]
    /\ tool_pc' = [tool_pc EXCEPT ![t] = "notify_failed"]
    /\ UNCHANGED <<tool_owner, tool_n, tool_call, tool_i, function_responses, tool_sent,
                   ui_log, loop_blocked>>
    /\ UNCHANGED toolFrame

\* The "failed" notification is out; the except branch ends, the response
\* is appended and the task suspends in the "completed" notification.
ToolFailed(t) ==
    /\ LoopFree
    /\ tool_pc[t] = "notify_failed"
    /\ ui_log' = [ui_log EXCEPT ![t] = Append(@, <<tool_i[t], "failed">>)]
    /\ function_responses' =
         [function_responses EXCEPT
            ![t] = Append(@, FunctionResponse(CurrentCall(t),
                      ErrorResult(tool_raised[t][tool_i[t]])))]
    /\ tool_pc' = [tool_pc EXCEPT ![t] = "notify_completed"]
    /\ UNCHANGED <<tool_owner, tool_n, tool_call, tool_i, tool_raised, tool_sent,
                   loop_blocked>>
    /\ UNCHANGED toolFrame

\* The "completed" notification is out; the loop takes the next function
\* call, or the task suspends in session.send(function_responses).
ToolCompleted(t) ==
    /\ LoopFree
    /\ tool_pc[t] = "notify_completed"
    /\ ui_log' = [ui_log EXCEPT ![t] = Append(@, <<tool_i[t], "completed">>)]
    /\ IF tool_i[t] < tool_n[t]
       THEN /\ tool_i' = [tool_i EXCEPT ![t] = @ + 1]
            /\ tool_pc' = [tool_pc EXCEPT ![t] = "notify_executing"]
       ELSE /\ tool_pc' = [tool_pc EXCEPT ![t] = "respond"]
            /\ UNCHANGED tool_i
    /\ UNCHANGED <<tool_owner, tool_n, tool_call, tool_raised, function_responses,
                   tool_sent, loop_blocked>>
    /\ UNCHANGED toolFrame

\* session.send(input={"function_responses": ...}) returned; the task ends.
ToolRespond(t) ==
    /\ LoopFree
    /\ tool_pc[t] = "respond"
    /\ tool_sent' = [tool_sent EXCEPT ![t] = function_responses[t]]
    /\ tool_pc' = [tool_pc EXCEPT ![t] = "done"]
    /\ UNCHANGED <<tool_owner, tool_n, tool_call, tool_i, tool_raised,
                   function_responses, ui_log, loop_blocked>>
    /\ UNCHANGED toolFrame

\* ------------------------------------------------------- specifications

\* The registry, the sweeper and the front door.  The relay's queue traffic
\* touches none of the registry's variables and is left to RelaySpec.
Next ==
    \/ create_session(MaxSessions)
    \/ \E s \in SessionIds : ConnectStart(s)
    \/ \E s \in SessionIds : ConnectSucceed(s)
    \/ \E s \in SessionIds : ConnectFail(s)
    \/ \E s \in SessionIds : ConnectCancelled(s)
    \/ \E d \in TickSteps : Tick(d)
    \/ \E c \in 1..MaxCloseCalls, s \in Created \cup {UnknownId} : CloseCall(c, s)
    \/ \E c \in 1..MaxCloseCalls : CloseResume(c)
    \/ \E c \in 1..MaxCloseCalls : CloseFinish(c)
    \/ cleanup_old_sessions
    \/ SweepResume
    \/ SweepFinish
    \/ \E h \in 1..MaxClients, s \in Created \cup {UnknownId} : Attach(h, s)
    \/ \E h \in 1..MaxClients : AcceptDone(h)
    \/ \E h \in 1..MaxClients : RelayStart(h)
    \/ \E h \in 1..MaxClients : HandlerCancel(h)
    \/ \E h \in 1..MaxClients : HandlerExit(h)

Spec == Init /\ [][Next]_vars

\* The status endpoint polled during the life of the sessions.
StatusNext ==
    \/ create_session(MaxSessions)
    \/ \E s \in SessionIds : ConnectStart(s)
    \/ \E s \in SessionIds : ConnectSucceed(s)
    \/ \E s \in SessionIds : ConnectFail(s)
    \/ \E s \in SessionIds : ConnectCancelled(s)
    \/ \E d \in TickSteps : Tick(d)
    \/ \E c \in 1..MaxCloseCalls, s \in Created \cup {UnknownId} : CloseCall(c, s)
    \/ \E c \in 1..MaxCloseCalls : CloseResume(c)
    \/ \E c \in 1..MaxCloseCalls : CloseFinish(c)
    \/ \E s \in Created \cup {UnknownId} : GetStatus(s)

StatusSpec == Init /\ [][StatusNext]_vars

\* The establishment of sessions, with the close_session calls that can
\* interrupt it.
EstablishProgress ==
    \/ \E s \in SessionIds : ConnectStart(s)
    \/ \E s \in SessionIds : ConnectSucceed(s)
    \/ \E s \in SessionIds : ConnectFail(s)
    \/ \E s \in SessionIds : ConnectCancelled(s)
    \/ \E c \in 1..MaxCloseCalls : CloseResume(c)
    \/ \E c \in 1..MaxCloseCalls : CloseFinish(c)

EstablishEnvironment ==
    \/ create_session(MaxSessions)
    \/ \E c \in 1..MaxCloseCalls, s \in Created \cup {UnknownId} : CloseCall(c, s)
    \/ \E c \in 1..MaxCloseCalls : CloseAexitRaised(c)

EstablishNext == EstablishProgress \/ EstablishEnvironment

EstablishSpec == Init /\ [][EstablishNext]_vars

\* The event loop runs the establishment task, and the handshake returns or
\* raises: websockets' open_timeout, set to 120 s by patched_ws_connect, ends
\* a handshake that does not complete.
FairEstablishSpec == EstablishSpec /\ WF_vars(EstablishProgress)

\* One relay in detail: the four tasks, the two queues, the client and the
\* upstream, with the session's life around it.
RelayProgress ==
    \/ \E s \in SessionIds : ConnectCancelled(s)
    \/ \E c \in 1..RelayCloseCalls : CloseResume(c)
    \/ \E c \in 1..RelayCloseCalls : CloseFinish(c)
    \/ \E h \in 1..RelayClients : AcceptDone(h)
    \/ \E h \in 1..RelayClients : RelayStart(h)
    \/ \E h \in 1..RelayClients : HandlerExit(h)
    \/ \E h \in 1..RelayClients : SendGet(h)
    \/ \E h \in 1..RelayClients : SendDone(h)
    \/ \E h \in 1..RelayClients : PlayGet(h)
    \/ \E h \in 1..RelayClients : PlayDone(h)

RelayEnvironment ==
    \/ create_session(RelaySessions)
    \/ \E s \in SessionIds : ConnectStart(s)
    \/ \E s \in SessionIds : ConnectSucceed(s)
    \/ \E s \in SessionIds : ConnectFail(s)
    \/ \E c \in 1..RelayCloseCalls, s \in Created \cup {UnknownId} : CloseCall(c, s)
    \/ \E h \in 1..RelayClients, s \in Created \cup {UnknownId} : Attach(h, s)
    \/ \E h \in 1..RelayClients : HandlerCancel(h)
    \/ \E h \in 1..RelayClients : ListenBytes(h)
    \/ \E h \in 1..RelayClients : ListenStop(h)
    \/ \E h \in 1..RelayClients : ListenDisconnect(h)
    \/ \E h \in 1..RelayClients : SendFail(h)
    \/ \E h \in 1..RelayClients : RecvAudio(h)
    \/ \E h \in 1..RelayClients : RecvFail(h)
    \/ \E h \in 1..RelayClients : PlayFail(h)

RelayNext == RelayProgress \/ RelayEnvironment

RelaySpec == Init /\ [][RelayNext]_vars

\* The event loop runs every coroutine that is ready to go on; the client,
\* the upstream and the server's shutdown are under no such obligation.
FairRelaySpec == RelaySpec /\ WF_vars(RelayProgress)

\* The sweeper waking up on a registry of sessions aged TTL - 1, TTL and
\* TTL + 1 seconds.  A session is in one of the situations the registry
\* keeps sessions in: not there (closed and removed), establishing, READY,
\* ERROR, or CLOSED with a DELETE's close_session suspended on it (waiting
\* for the cancelled establishment task, or in __aexit__).
SweepStages == {"absent", "connecting", "ready", "error", "cancelling", "closing"}

SweepInit ==
    \E stage \in [1..SweepSessions -> SweepStages],
       born \in [1..SweepSessions -> 0..2] :
      LET In(s) == s \in 1..SweepSessions
          St(s) == IF In(s) THEN stage[s] ELSE "absent"
          Waiting(c) == IF St(c) = "cancelling" THEN "await_connect"
                        ELSE IF St(c) = "closing" THEN "await_aexit"
                        ELSE "idle"
      IN
      /\ \A s \in 1..SweepSessions :
            stage[s] \in {"cancelling", "closing"} => s \in CloseCalls
      /\ sessions = {s \in 1..SweepSessions : stage[s] # "absent"}
      /\ status = [s \in SessionIds |->
                     CASE St(s) = "connecting" -> "connecting"
                       [] St(s) = "ready" -> "ready"
                       [] St(s) = "error" -> "error"
                       [] OTHER -> "closed"]
      /\ gemini_session = [s \in SessionIds |-> St(s) \in {"ready", "closing"}]
      /\ connect_task = [s \in SessionIds |->
                           CASE St(s) = "connecting" -> "awaiting"
                             [] St(s) = "cancelling" -> "cancel_requested"
                             [] St(s) = "absent" -> "cancelled"
                             [] OTHER -> "done"]
      /\ created_at = [s \in SessionIds |-> IF In(s) THEN born[s] ELSE 0]
      /\ now = max_age_seconds + 1
      /\ ticks = MaxTicks
      /\ nextId = SweepSessions + 1
      /\ closePc = [c \in CloseCalls |-> Waiting(c)]
      /\ closeTarget = [c \in CloseCalls |->
                          IF Waiting(c) = "idle" THEN UnknownId ELSE c]
      /\ closeError = [c \in CloseCalls |-> FALSE]
      /\ aexit_calls = [s \in SessionIds |->
                          IF St(s) = "closing" THEN 1 ELSE 0]
      /\ close_warnings = {}
      /\ sweepPc = "sleeping"
      /\ sweepCur = UnknownId
      /\ to_remove = <<>>
      /\ sweepSaw = {}
      /\ hpc = [h \in Handlers |-> "idle"]
      /\ hsession = [h \in Handlers |-> UnknownId]
      /\ listen = [h \in Handlers |-> "none"]
      /\ listenFrame = [h \in Handlers |-> 0]
      /\ send = [h \in Handlers |-> "none"]
      /\ sendFrame = [h \in Handlers |-> 0]
      /\ recv = [h \in Handlers |-> "none"]
      /\ play = [h \in Handlers |-> "none"]
      /\ playFrame = [h \in Handlers |-> 0]
      /\ out_queue = [s \in SessionIds |-> <<>>]
      /\ audio_in_queue = [s \in SessionIds |-> <<>>]
      /\ should_stop = [h \in Handlers |-> FALSE]
      /\ clientFrames = 0
      /\ upstreamFrames = 0
      /\ put_log = [s \in SessionIds |-> <<>>]
      /\ recv_log = [s \in SessionIds |-> <<>>]
      /\ sent_upstream = [s \in SessionIds |-> <<>>]
      /\ written = [h \in Handlers |-> <<>>]
      /\ drained = {}
      /\ error_message = [s \in SessionIds |->
                            IF St(s) = "error" THEN "GOOGLE_API_KEY required"
                            ELSE "None"]
      /\ connection_time_seconds =
           [s \in SessionIds |-> St(s) \in {"ready", "error", "closing"}]
      /\ connected_at = [s \in SessionIds |-> St(s) \in {"ready", "closing"}]
      /\ tool_pc = [t \in ToolCalls |-> "none"]
      /\ tool_owner = [t \in ToolCalls |-> 0]
      /\ tool_n = [t \in ToolCalls |-> 0]
      /\ tool_call = [t \in ToolCalls |-> <<>>]
      /\ tool_i = [t \in ToolCalls |-> 0]
      /\ tool_raised = [t \in ToolCalls |-> <<>>]
      /\ function_responses = [t \in ToolCalls |-> <<>>]
      /\ tool_sent = [t \in ToolCalls |-> <<>>]
      /\ ui_log = [t \in ToolCalls |-> <<>>]
      /\ loop_blocked = 0
      /\ poll = NoPoll
      /\ connected_stamps = [s \in SessionIds |-> IF connected_at[s] THEN 1 ELSE 0]
      /\ stop_pending = [s \in SessionIds |-> {}]
      /\ released = <<>>

SweepNext ==
    \/ cleanup_old_sessions
    \/ SweepResume
    \/ SweepFinish
    \/ \E s \in SessionIds : ConnectSucceed(s)
    \/ \E s \in SessionIds : ConnectFail(s)
    \/ \E s \in SessionIds : ConnectCancelled(s)
    \/ \E c \in CloseCalls : CloseResume(c)
    \/ \E c \in CloseCalls : CloseFinish(c)
    \/ \E c \in CloseCalls : CloseAexitRaised(c)
    \/ SweepAexitRaised

SweepSpec == SweepInit /\ [][SweepNext]_vars

\* The event loop runs every coroutine that can go on: a cancelled task ends,
\* a handshake and an __aexit__ come back (websockets bounds both by
\* timeouts).
FairSweepSpec == SweepSpec /\ WF_vars(SweepNext)

\* `await asyncio.sleep(60)` of cleanup_loop: a minute goes by.  The clock is
\* followed for as long as the registry holds a session that is not old
\* enough to be swept.
SweepSleep ==
    /\ \E s \in sessions : now - created_at[s] <= max_age_seconds
    /\ now' = now + cleanup_interval_seconds
    /\ UNCHANGED <<sessions, status, gemini_session, connect_task, created_at,
                   ticks, nextId>>
    /\ UNCHANGED <<closeVars, sweepVars, handlerVars, relayVars>>
    /\ UNCHANGED sideVars

\* The sweeper over the minutes, on the same registries.
ExpiryNext == SweepNext \/ SweepSleep

ExpirySpec == SweepInit /\ [][ExpiryNext]_vars

\* cleanup_loop is started with the server and wakes up every minute; the
\* event loop runs every coroutine that can go on.
FairExpirySpec == ExpirySpec /\ WF_vars(SweepNext) /\ WF_vars(SweepSleep)

\* release_session called, twice, on session records of every status.  Each
\* session is drawn absent or with one of the six statuses, with the handle
\* and establishment task that go with the status.
ReleaseStages == SessionStatus \cup {"absent"}

ReleaseInit ==
    \E stage \in [SessionIds -> ReleaseStages] :
      /\ sessions = {s \in SessionIds : stage[s] # "absent"}
      /\ status = [s \in SessionIds |->
                     IF stage[s] = "absent" THEN "closed" ELSE stage[s]]
      /\ gemini_session = [s \in SessionIds |->
                             stage[s] \in {"ready", "in_use", "closed", "absent"}]
      /\ connect_task = [s \in SessionIds |->
                           CASE stage[s] = "pending" -> "scheduled"
                             [] stage[s] = "connecting" -> "awaiting"
                             [] OTHER -> "done"]
      /\ created_at = [s \in SessionIds |-> 0]
      /\ now = 0
      /\ ticks = 0
      /\ nextId = Max2(MaxSessions, RelaySessions) + 1
      /\ closePc = [c \in CloseCalls |-> "idle"]
      /\ closeTarget = [c \in CloseCalls |-> UnknownId]
      /\ closeError = [c \in CloseCalls |-> FALSE]
      /\ aexit_calls = [s \in SessionIds |-> 0]
      /\ close_warnings = {}
      /\ sweepPc = "sleeping"
      /\ sweepCur = UnknownId
      /\ to_remove = <<>>
      /\ sweepSaw = {}
      /\ hpc = [h \in Handlers |-> "idle"]
      /\ hsession = [h \in Handlers |-> UnknownId]
      /\ listen = [h \in Handlers |-> "none"]
      /\ listenFrame = [h \in Handlers |-> 0]
      /\ send = [h \in Handlers |-> "none"]
      /\ sendFrame = [h \in Handlers |-> 0]
      /\ recv = [h \in Handlers |-> "none"]
      /\ play = [h \in Handlers |-> "none"]
      /\ playFrame = [h \in Handlers |-> 0]
      /\ out_queue = [s \in SessionIds |-> <<>>]
      /\ audio_in_queue = [s \in SessionIds |-> <<>>]
      /\ should_stop = [h \in Handlers |-> FALSE]
      /\ clientFrames = 0
      /\ upstreamFrames = 0
      /\ put_log = [s \in SessionIds |-> <<>>]
      /\ recv_log = [s \in SessionIds |-> <<>>]
      /\ sent_upstream = [s \in SessionIds |-> <<>>]
      /\ written = [h \in Handlers |-> <<>>]
      /\ drained = {}
      /\ error_message = [s \in SessionIds |->
                            IF stage[s] = "error" THEN "GOOGLE_API_KEY required"
                            ELSE "None"]
      /\ connection_time_seconds =
           [s \in SessionIds |->
              stage[s] \in {"ready", "in_use", "error", "closed", "absent"}]
      /\ connected_at = [s \in SessionIds |->
                           stage[s] \in {"ready", "in_use", "closed", "absent"}]
      /\ tool_pc = [t \in ToolCalls |-> "none"]
      /\ tool_owner = [t \in ToolCalls |-> 0]
      /\ tool_n = [t \in ToolCalls |-> 0]
      /\ tool_call = [t \in ToolCalls |-> <<>>]
      /\ tool_i = [t \in ToolCalls |-> 0]
      /\ tool_raised = [t \in ToolCalls |-> <<>>]
      /\ function_responses = [t \in ToolCalls |-> <<>>]
      /\ tool_sent = [t \in ToolCalls |-> <<>>]
      /\ ui_log = [t \in ToolCalls |-> <<>>]
      /\ loop_blocked = 0
      /\ poll = NoPoll
      /\ connected_stamps = [s \in SessionIds |-> IF connected_at[s] THEN 1 ELSE 0]
      /\ stop_pending = [s \in SessionIds |-> {}]
      /\ released = <<>>

ReleaseNext == \E s \in SessionIds \cup {UnknownId} : ReleaseCall(s)

ReleaseSpec == ReleaseInit /\ [][ReleaseNext]_vars

\* Two sessions side by side, each with its client, its relay and its tool
\* calls, and the failures that can hit them.
IsolationNext ==
    \/ create_session(MaxSessions)
    \/ \E s \in SessionIds : ConnectStart(s)
    \/ \E s \in SessionIds : ConnectSucceed(s)
    \/ \E s \in SessionIds : ConnectFail(s)
    \/ \E h \in 1..MaxClients, s \in Created : Attach(h, s)
    \/ \E h \in 1..MaxClients : AcceptDone(h)
    \/ \E h \in 1..MaxClients : RelayStart(h)
    \/ \E h \in 1..MaxClients : HandlerCancel(h)
    \/ \E h \in 1..MaxClients : HandlerExit(h)
    \/ \E h \in 1..MaxClients : ListenOne(h)
    \/ \E h \in 1..MaxClients : ListenDisconnect(h)
    \/ \E h \in 1..MaxClients : SendGet(h)
    \/ \E h \in 1..MaxClients : SendFail(h)
    \/ \E h \in 1..MaxClients : RecvOne(h)
    \/ \E h \in 1..MaxClients : RecvFail(h)
    \/ \E h \in 1..MaxClients : PlayGet(h)
    \/ \E h \in 1..MaxClients : PlayFail(h)
    \/ \E h \in 1..MaxClients, t \in 1..IsolationToolCalls : RecvToolCall(h, t, 1)
    \/ \E t \in 1..IsolationToolCalls : ToolStart(t)
    \/ \E t \in 1..IsolationToolCalls : ToolExecuting(t)
    \/ \E t \in 1..IsolationToolCalls, e \in ToolErrors : ToolRaise(t, e)
    \/ \E t \in 1..IsolationToolCalls : ToolFailed(t)

IsolationSpec == Init /\ [][IsolationNext]_vars

\* One relay with its tool calls, up to and beyond the end of the relay.
TeardownNext ==
    \/ create_session(RelaySessions)
    \/ \E s \in SessionIds : ConnectStart(s)
    \/ \E s \in SessionIds : ConnectSucceed(s)
    \/ \E h \in 1..RelayClients, s \in Created : Attach(h, s)
    \/ \E h \in 1..RelayClients : AcceptDone(h)
    \/ \E h \in 1..RelayClients : RelayStart(h)
    \/ \E h \in 1..RelayClients : HandlerCancel(h)
    \/ \E h \in 1..RelayClients : HandlerExit(h)
    \/ \E h \in 1..RelayClients, t \in ToolCalls, n \in 1..MaxFunctionCalls :
          RecvToolCall(h, t, n)
    \/ \E t \in ToolCalls : ToolStart(t)
    \/ \E t \in ToolCalls : ToolExecuting(t)
    \/ \E t \in ToolCalls : ToolReturn(t)
    \/ \E t \in ToolCalls, e \in ToolErrors : ToolRaise(t, e)
    \/ \E t \in ToolCalls : ToolFailed(t)
    \/ \E t \in ToolCalls : ToolCompleted(t)
    \/ \E t \in ToolCalls : ToolRespond(t)

TeardownSpec == Init /\ [][TeardownNext]_vars

\* One session that clients attach to one after the other, with the audio
\* of both directions.
ReattachNext ==
    \/ create_session(RelaySessions)
    \/ \E s \in SessionIds : ConnectStart(s)
    \/ \E s \in SessionIds : ConnectSucceed(s)
    \/ \E h \in 1..MaxClients, s \in Created : Attach(h, s)
    \/ \E h \in 1..MaxClients : AcceptDone(h)
    \/ \E h \in 1..MaxClients : RelayStart(h)
    \/ \E h \in 1..MaxClients : HandlerCancel(h)
    \/ \E h \in 1..MaxClients : HandlerExit(h)
    \/ \E h \in 1..MaxClients : ListenBytes(h)
    \/ \E h \in 1..MaxClients : SendGet(h)
    \/ \E h \in 1..MaxClients : SendDone(h)
    \/ \E h \in 1..MaxClients : RecvAudio(h)
    \/ \E h \in 1..MaxClients : PlayGet(h)
    \/ \E h \in 1..MaxClients : PlayDone(h)

ReattachSpec == Init /\ [][ReattachNext]_vars

\* One relay whose client sends more frames than out_queue holds while the
\* upstream takes them one at a time.
BackpressureNext ==
    \/ create_session(RelaySessions)
    \/ \E s \in SessionIds : ConnectStart(s)
    \/ \E s \in SessionIds : ConnectSucceed(s)
    \/ \E h \in 1..RelayClients, s \in Created : Attach(h, s)
    \/ \E h \in 1..RelayClients : AcceptDone(h)
    \/ \E h \in 1..RelayClients : RelayStart(h)
    \/ \E h \in 1..RelayClients : ListenBurst(h)
    \/ \E h \in 1..RelayClients : ListenPutResume(h)
    \/ \E h \in 1..RelayClients : SendGet(h)
    \/ \E h \in 1..RelayClients : SendDone(h)

BackpressureSpec == Init /\ [][BackpressureNext]_vars

\* The same relay with the ways its tasks end: session.send() raising, the
\* client's stop and disconnect, the cancellation of the endpoint's task.
InboundProgress ==
    \/ \E h \in 1..RelayClients : AcceptDone(h)
    \/ \E h \in 1..RelayClients : RelayStart(h)
    \/ \E h \in 1..RelayClients : HandlerExit(h)
    \/ \E h \in 1..RelayClients : ListenPutResume(h)
    \/ \E h \in 1..RelayClients : SendGet(h)
    \/ \E h \in 1..RelayClients : SendDone(h)

InboundEnvironment ==
    \/ create_session(RelaySessions)
    \/ \E s \in SessionIds : ConnectStart(s)
    \/ \E s \in SessionIds : ConnectSucceed(s)
    \/ \E h \in 1..RelayClients, s \in Created : Attach(h, s)
    \/ \E h \in 1..RelayClients : HandlerCancel(h)
    \/ \E h \in 1..RelayClients : ListenBurst(h)
    \/ \E h \in 1..RelayClients : ListenStop(h)
    \/ \E h \in 1..RelayClients : ListenDisconnect(h)
    \/ \E h \in 1..RelayClients : SendFail(h)

InboundNext == InboundProgress \/ InboundEnvironment

InboundSpec == Init /\ [][InboundNext]_vars

\* The event loop runs every coroutine that is ready to go on, and the
\* upstream answers a send(); the client and the server's shutdown are under
\* no obligation.
FairInboundSpec == InboundSpec /\ WF_vars(InboundProgress)

\* The dispatch of tool calls by itself: one relay, requests of one or two
\* function calls for known and unknown names, handlers that return or
\* raise.
ResponseNext ==
    \/ create_session(RelaySessions)
    \/ \E s \in SessionIds : ConnectStart(s)
    \/ \E s \in SessionIds : ConnectSucceed(s)
    \/ \E h \in 1..RelayClients, s \in Created : Attach(h, s)
    \/ \E h \in 1..RelayClients : AcceptDone(h)
    \/ \E h \in 1..RelayClients : RelayStart(h)
    \/ \E h \in 1..RelayClients, t \in ToolCalls, n \in 1..MaxFunctionCalls :
          RecvAnyToolCall(h, t, n)
    \/ \E t \in ToolCalls : ToolStart(t)
    \/ \E t \in ToolCalls : ToolExecuting(t)
    \/ \E t \in ToolCalls : ToolReturn(t)
    \/ \E t \in ToolCalls, e \in ToolErrors : ToolRaise(t, e)
    \/ \E t \in ToolCalls : ToolFailed(t)
    \/ \E t \in ToolCalls : ToolCompleted(t)
    \/ \E t \in ToolCalls : ToolRespond(t)

ResponseSpec == Init /\ [][ResponseNext]_vars

\* One relay with the tool calls receive_audio dispatches.  Every coroutine
\* step needs the event loop; while a handler sits in a synchronous call
\* only the return of that call can happen.
ToolProgress ==
    \/ \E h \in 1..RelayClients : AcceptDone(h)
    \/ \E h \in 1..RelayClients : RelayStart(h)
    \/ \E h \in 1..RelayClients : SendGet(h)
    \/ \E h \in 1..RelayClients : SendDone(h)
    \/ \E h \in 1..RelayClients : PlayGet(h)
    \/ \E h \in 1..RelayClients : PlayDone(h)
    \/ \E t \in ToolCalls : ToolStart(t)
    \/ \E t \in ToolCalls : ToolExecuting(t)
    \/ \E t \in ToolCalls : ToolFailed(t)
    \/ \E t \in ToolCalls : ToolCompleted(t)
    \/ \E t \in ToolCalls : ToolRespond(t)

ToolEnvironment ==
    \/ create_session(RelaySessions)
    \/ \E s \in SessionIds : ConnectStart(s)
    \/ \E s \in SessionIds : ConnectSucceed(s)
    \/ \E h \in 1..RelayClients, s \in Created : Attach(h, s)
    \/ \E h \in 1..RelayClients : ListenBytes(h)
    \/ \E h \in 1..RelayClients : RecvAudio(h)
    \/ \E h \in 1..RelayClients, t \in ToolCalls, n \in 1..MaxFunctionCalls :
          RecvToolCall(h, t, n)
    \/ \E t \in ToolCalls : ToolBlock(t)
    \/ \E t \in ToolCalls : ToolReturn(t)
    \/ \E t \in ToolCalls, e \in ToolErrors : ToolRaise(t, e)
    \/ \E t \in ToolCalls : ToolUnblock(t)

ToolNext == ToolProgress \/ ToolEnvironment

ToolSpec == Init /\ [][ToolNext]_vars

\* The event loop runs every coroutine that is ready whenever it is free; a
\* handler's awaited or synchronous call need not ever return.
FairToolSpec == ToolSpec /\ WF_vars(ToolProgress)

\* ------------------------------------------------------------ properties

\* A handler that holds the session get_session gave it.
Holding(h) == hpc[h] \in {"accepting", "greeting", "relay", "aborting"}

Holders(s) == {h \in Handlers : Holding(h) /\ hsession[h] = s}

\* The step in which handler h makes its get_session call.
AttachStep(h) == hpc[h] = "idle" /\ hpc'[h] # "idle"

\* C1: an attach succeeds exactly when the session is in the registry with
\* status READY at the call, the same step leaves the status IN_USE, and no
\* session is ever held by two handlers at once.
C1_AttachAtomic ==
    [][/\ \A h \in Handlers :
            AttachStep(h) =>
              /\ (hpc'[h] = "accepting") <=>
                   (hsession'[h] \in sessions /\ status[hsession'[h]] = "ready")
              /\ hpc'[h] = "accepting" => status'[hsession'[h]] = "in_use"
       /\ \A s \in SessionIds :
            Cardinality({h \in Handlers : Holding(h)' /\ hsession'[h] = s}) <= 1
      ]_vars

\* C1 witness: one handler holds a session and the attach of another
\* handler on the same session was refused.
C1_Witness ==
    \E h, g \in Handlers :
        /\ Holding(h) /\ hpc[g] = "refused"
        /\ hsession[g] = hsession[h] /\ status[hsession[h]] = "in_use"

\* The edges of the state machine as the specification lists them.
SpecEdges ==
    {<<"pending", "connecting">>, <<"connecting", "ready">>,
     <<"connecting", "error">>, <<"ready", "in_use">>, <<"in_use", "ready">>,
     <<"ready", "closed">>, <<"error", "closed">>, <<"closed", "closed">>}

\* The edges close_session adds: it closes a session in whatever status.
CloseAnyEdges ==
    {<<"pending", "closed">>, <<"connecting", "closed">>,
     <<"in_use", "closed">>}

\* C2 as stated: every change of a status follows one of the listed edges.
C2_OnlySpecEdges ==
    [][\A s \in SessionIds :
          status'[s] # status[s] => <<status[s], status'[s]>> \in SpecEdges]_vars

\* C2 amended: every change of a status follows one of the listed edges or
\* is a close_session taking a PENDING, CONNECTING or IN_USE session to
\* CLOSED.
C2_CodeEdges ==
    [][\A s \in SessionIds :
          status'[s] # status[s] =>
            <<status[s], status'[s]>> \in SpecEdges \cup CloseAnyEdges]_vars

\* C2 witness: a session was closed while a handler held it IN_USE.
C2_Witness ==
    \E h \in Handlers : Holding(h) /\ status[hsession[h]] = "closed"

\* C3 as stated: the sweeper never calls close_session on a session that is
\* IN_USE or CONNECTING at the moment of the call.
C3_SweeperSparesInUse ==
    \A p \in sweepSaw : p[2] \notin {"in_use", "connecting"}

\* C4: once a close_session call has returned it has raised nothing, the
\* registry holds no session with that id and GET status answers 404; this
\* holds for the first call on an id and for every later one.
C4_CloseIdempotent ==
    \A c \in CloseCalls :
        closePc[c] = "returned" =>
          /\ ~closeError[c]
          /\ closeTarget[c] \notin sessions
          /\ get_voice_session_status(closeTarget[c]).http = 404

\* C4 witness: two close_session calls on the same created id have returned.
C4_Witness ==
    \E c, d \in CloseCalls :
        /\ c # d /\ closePc[c] = "returned" /\ closePc[d] = "returned"
        /\ closeTarget[c] = closeTarget[d] /\ closeTarget[c] \in Created

\* C5 as stated: for every session in the registry the handle is non-null
\* exactly when the status is READY or IN_USE.
C5_HandleIffLive ==
    \A s \in sessions :
        gemini_session[s] <=> status[s] \in {"ready", "in_use"}

\* C5 amended: a session in the registry with status READY or IN_USE has a
\* handle, and a session in the registry with a handle has status READY,
\* IN_USE or CLOSED (close_session leaves the field set until the entry is
\* removed).
C5_HandleWhenLive ==
    \A s \in sessions :
        /\ status[s] \in {"ready", "in_use"} => gemini_session[s]
        /\ gemini_session[s] => status[s] \in {"ready", "in_use", "closed"}

\* C5 witness: a session still in the registry is CLOSED and has its handle.
C5_Witness ==
    \E s \in sessions : status[s] = "closed" /\ gemini_session[s]

\* C6: a status that is CLOSED stays CLOSED, an attach on a CLOSED session
\* is refused, and a close_session call that has returned (a DELETE's or the
\* sweeper's) has left no entry for its id.
C6_ClosedTerminal ==
    [][/\ \A s \in SessionIds :
            status[s] = "closed" =>
              /\ status'[s] = "closed"
              /\ \A h \in Handlers :
                   AttachStep(h) /\ hsession'[h] = s => hpc'[h] = "refused"
       /\ \A c \in CloseCalls :
            closePc'[c] = "returned" => closeTarget'[c] \notin sessions'
       /\ sweepPc # "sleeping" /\ sweepCur' # sweepCur => sweepCur \notin sessions'
      ]_vars

\* C6 witness: a session closed while its establishment task was running
\* (the task was cancelled), the close has returned, and an attach on it
\* was refused.
C6_Witness ==
    \E s \in Created :
        /\ status[s] = "closed" /\ s \notin sessions
        /\ connect_task[s] = "cancelled"
        /\ \E c \in CloseCalls : closePc[c] = "returned" /\ closeTarget[c] = s
        /\ \E h \in Handlers : hpc[h] = "refused" /\ hsession[h] = s

\* A task of the relay that can still take a step.
Alive(t) == t \in {"receiving", "put_wait", "get", "sending", "writing"}

\* the status of the session handler h asked for
HeldStatus(h) ==
    IF hsession[h] \in SessionIds THEN status[hsession[h]] ELSE "not_found"

RelayStopped(h) ==
    ~Alive(listen[h]) /\ ~Alive(send[h]) /\ ~Alive(recv[h]) /\ ~Alive(play[h])

\* C7 as stated: once listen_audio has seen the client disconnect, the four
\* tasks eventually have stopped, run_with_session has returned and the
\* session is no longer IN_USE.
C7_DisconnectEndsRelay ==
    \A h \in Handlers :
        (listen[h] = "disconnected") ~>
            (/\ RelayStopped(h)
             /\ hpc[h] = "done"
             /\ HeldStatus(h) # "in_use")

\* C8 as stated: once one of send_audio_to_gemini, receive_audio and
\* play_audio has failed, the other tasks of the relay are eventually
\* stopped and the session is released or closed.
C8_FailureCancelsGroup ==
    \A h \in Handlers :
        ("ended" \in {send[h], recv[h], play[h]}) ~>
            (RelayStopped(h) /\ HeldStatus(h) # "in_use")

\* position of a frame in a log without repetitions
Pos(q, f) == CHOOSE i \in 1..Len(q) : q[i] = f

\* q is made of elements of log, in log's order, none twice
InOrderOf(q, log) ==
    /\ Range(q) \subseteq Range(log)
    /\ \A i, j \in 1..Len(q) : i < j => Pos(log, q[i]) < Pos(log, q[j])

\* the frame a running send_audio_to_gemini holds between get() and send()
InFlight(s) ==
    {sendFrame[h] : h \in {g \in Handlers : hsession[g] = s /\ send[g] = "sending"}}

\* a send_audio_to_gemini task on s has ended (by an error or a cancel)
SendEnded(s) ==
    \E h \in Handlers :
        hsession[h] = s /\ send[h] \in {"ended", "cancelling", "cancelled"}

\* C9: the frames delivered upstream are frames put on out_queue, in the
\* order they were put, none twice; and as long as no send task of the
\* session has ended, the frames put are exactly the frames delivered, then
\* the frame in flight, then the queue's content: none is skipped or lost.
C9_InboundFifo ==
    \A s \in SessionIds :
        /\ InOrderOf(sent_upstream[s], put_log[s])
        /\ ~SendEnded(s) =>
             \E mid \in {<<>>} \cup {<<f>> : f \in InFlight(s)} :
                 /\ InFlight(s) # {} => mid # <<>>
                 /\ put_log[s] = sent_upstream[s] \o mid \o out_queue[s]

\* C9 witness: three frames were put and all three were delivered upstream.
C9_Witness ==
    \E s \in SessionIds : Len(put_log[s]) >= 3 /\ sent_upstream[s] = put_log[s]

\* C10: a stop that finds N frames on audio_in_queue leaves the queue empty
\* in the same step, with all N discarded and nothing written in that step;
\* and no discarded frame is ever written to a client or held by play_audio.
C10_StopDrains ==
    /\ [][drained' # drained =>
            /\ written' = written
            /\ \A s \in SessionIds :
                 Range(audio_in_queue[s]) \cap drained' # {} =>
                   /\ audio_in_queue'[s] = <<>>
                   /\ Range(audio_in_queue[s]) \subseteq drained'
         ]_vars
    /\ [](\A h \in Handlers :
            Range(written[h]) \cap drained = {} /\ playFrame[h] \notin drained)

\* C10 witness: a stop discarded two frames at once and a frame was
\* written to the client as well.
C10_Witness ==
    /\ Cardinality(drained) >= 2
    /\ \E h \in Handlers : written[h] # <<>>

\* ------------------------------------------------- properties: tool calls

\* a function call of task t raised
Raised(t) == \E i \in 1..Len(tool_raised[t]) : tool_raised[t][i] # NotRaised

\* C11: a response sent upstream for a function call whose handler raised
\* is "Error executing ..." with the text of the exception in it; the
\* dispatch goes on to its end all the same (every function call of the
\* event is answered); no step of a dispatch touches the four relay tasks
\* or the handler; and with a call that raised the relay can still take a
\* frame from either queue whenever the event loop is free.
C11_ToolErrorContained ==
    [][/\ \A t \in ToolCalls :
            /\ \A i \in 1..Len(tool_sent'[t]) :
                 tool_raised'[t][i] # NotRaised =>
                   /\ tool_sent'[t][i].response.result.text[1] = "Error executing"
                   /\ tool_sent'[t][i].response.result.text[2]
                        = ExceptionStr(tool_raised'[t][i])
            /\ tool_pc'[t] = "done" => Len(tool_sent'[t]) = tool_n'[t]
            /\ Raised(t) /\ tool_pc[t] # "done" => tool_pc'[t] # "none"
       /\ toolVars' # toolVars => UNCHANGED <<taskVars, handlerVars>>
       /\ \A t \in ToolCalls, h \in Handlers :
            Raised(t) /\ tool_owner[t] = h /\ LoopFree =>
              /\ hpc[h] = "relay"
              /\ send[h] = "get" /\ out_queue[hsession[h]] # <<>>
                   => ENABLED SendGet(h)
              /\ play[h] = "get" /\ audio_in_queue[hsession[h]] # <<>>
                   => ENABLED PlayGet(h)
      ]_vars

\* C11 witness: a dispatch whose handler raised has sent its response, the
\* four relay tasks are alive and every frame of either direction has been
\* delivered.
C11_Witness ==
    \E t \in ToolCalls :
        /\ tool_pc[t] = "done" /\ Raised(t)
        /\ \E h \in Handlers :
             /\ tool_owner[t] = h /\ hpc[h] = "relay"
             /\ Alive(listen[h]) /\ Alive(send[h]) /\ Alive(recv[h]) /\ Alive(play[h])
             /\ Len(sent_upstream[hsession[h]]) = MaxClientFrames
             /\ Len(written[h]) = MaxUpstreamFrames

\* the statuses of the notifications the client got for function call i of
\* task t, in the order it got them
RECURSIVE StatusesOf(_, _)
StatusesOf(log, i) ==
    IF log = <<>> THEN <<>>
    ELSE IF Head(log)[1] = i
         THEN <<Head(log)[2]>> \o StatusesOf(Tail(log), i)
         ELSE StatusesOf(Tail(log), i)

\* handle_tool_call is through with function call i of task t
Processed(t, i) ==
    /\ i \in 1..tool_n[t]
    /\ \/ tool_i[t] > i
       \/ tool_pc[t] \in {"respond", "done"}

\* C12 as stated: for every function call the dispatch is through with, the
\* client got "executing" and then exactly one terminal notification:
\* "failed" if the handler raised, "completed" if it returned.
C12_OneTerminalNotification ==
    \A t \in ToolCalls : \A i \in 1..MaxFunctionCalls :
        Processed(t, i) =>
          StatusesOf(ui_log[t], i) =
            IF tool_raised[t][i] # NotRaised
            THEN <<"executing", "failed">>
            ELSE <<"executing", "completed">>

\* the upstream -> client queue of the session handler h relays
PlayQueue(h) ==
    IF hsession[h] \in SessionIds THEN audio_in_queue[hsession[h]] ELSE <<>>

\* a handle_tool_call task is inside the handler of a function call
Executing(t) == tool_pc[t] \in {"handler", "sync", "resumed"}

\* C13 as stated: frames waiting on the upstream -> client queue while a
\* tool call is executing are delivered (the queue empties) even if the
\* handler never returns.
C13_ToolNeverStalls ==
    \A h \in Handlers :
        ((\E t \in ToolCalls : Executing(t))
            /\ hpc[h] = "relay" /\ PlayQueue(h) # <<>>)
          ~> (PlayQueue(h) = <<>>)

\* ------------------------------------------------ properties: backpressure

\* the frame listen_audio holds while it is blocked in put()
Blocked(s) ==
    {listenFrame[h] : h \in {g \in Handlers : hsession[g] = s /\ listen[g] = "put_wait"}}

\* C14: out_queue never holds more than 10 frames; listen_audio blocked in
\* put() holds one frame that is not on the queue, the queue is full while
\* it stays blocked, and it gets out of put() only by a step that finds a
\* free slot and puts that frame; every frame the client sent is on the
\* put log or is the one held in put().
C14_InboundBounded ==
    [][/\ \A s \in SessionIds : Len(out_queue'[s]) <= out_queue_maxsize
       /\ \A h \in Handlers :
            listen[h] = "put_wait" =>
              /\ listenFrame[h] \notin Range(put_log[hsession[h]])
              /\ listen'[h] = "put_wait" =>
                   /\ listenFrame'[h] = listenFrame[h]
                   /\ put_log'[hsession[h]] = put_log[hsession[h]]
              /\ listen'[h] # "put_wait" =>
                   /\ Len(out_queue[hsession[h]]) < out_queue_maxsize
                   /\ put_log'[hsession[h]] =
                        Append(put_log[hsession[h]], listenFrame[h])
       /\ UNION {Range(put_log'[s]) \cup Blocked(s)' : s \in SessionIds}
            = 1..clientFrames'
      ]_vars

\* C14 witness: listen_audio is blocked in put() on a queue of 10 frames.
C14_Witness ==
    \E h \in Handlers :
        /\ listen[h] = "put_wait"
        /\ Len(out_queue[hsession[h]]) = out_queue_maxsize

\* ------------------------------------- properties: close while connecting

\* the establishment task of s has been created and has not finished
Establishing(s) == connect_task[s] \in {"scheduled", "awaiting"}

\* C15: a close_session call that finds the establishment task running
\* (status PENDING or CONNECTING) requests its cancellation and waits; it
\* goes on only when the task has ended, and the task has then ended
\* cancelled; from the request on the session is CLOSED, never READY or
\* ERROR, and has no handle.
C15_CloseCancelsConnect ==
    [][/\ \A c \in CloseCalls :
            /\ closePc[c] = "idle" /\ closePc'[c] # "idle"
                 /\ closeTarget'[c] \in sessions
                 /\ Establishing(closeTarget'[c])
                 => /\ status[closeTarget'[c]] \in {"pending", "connecting"}
                    /\ connect_task'[closeTarget'[c]] = "cancel_requested"
                    /\ closePc'[c] = "await_connect"
            /\ closePc[c] = "await_connect" /\ closePc'[c] # "await_connect"
                 => connect_task[closeTarget[c]] = "cancelled"
       /\ \A s \in SessionIds :
            connect_task[s] \in {"cancel_requested", "cancelled"} =>
              /\ status[s] = "closed" /\ status'[s] = "closed"
              /\ ~gemini_session[s] /\ ~gemini_session'[s]
              /\ connect_task'[s] \in {"cancel_requested", "cancelled"}
      ]_vars

\* C15 witness: a close_session call that waited for the cancelled
\* establishment task has returned; the session is gone, CLOSED, without a
\* handle.
C15_Witness ==
    \E c \in CloseCalls :
        /\ closePc[c] = "returned" /\ closeTarget[c] \in Created
        /\ connect_task[closeTarget[c]] = "cancelled"
        /\ closeTarget[c] \notin sessions
        /\ status[closeTarget[c]] = "closed"
        /\ ~gemini_session[closeTarget[c]]
        /\ connected_at[closeTarget[c]] = FALSE

\* --------------------------------------- properties: close during a relay

\* a close_session call (a DELETE's or the sweeper's) has reached
\* `await session._connection_cm.__aexit__(...)` on s, or is past it
Releasing(s) ==
    \/ \E c \in CloseCalls : closePc[c] = "await_aexit" /\ closeTarget[c] = s
    \/ sweepPc = "await_aexit" /\ sweepCur = s
    \/ HandleClosed(s)

C17_SweepBoundary ==
    [][/\ sweepPc = "sleeping" /\ sweepSaw' # sweepSaw =>
            LET called == {p[1] : p \in sweepSaw' \ sweepSaw} \cup Range(to_remove')
            IN \A s \in SessionIds :
                 s \in called <=>
                   /\ s \in sessions
                   /\ status[s] \in {"ready", "error", "closed"}
                   /\ now - created_at[s] > 300
       /\ Range(to_remove) \ Range(to_remove')
            \subseteq {p[1] : p \in sweepSaw'}
       /\ \A p \in sweepSaw' \ sweepSaw : now - created_at[p[1]] >= 301
      ]_vars

\* C17 witness: the sweep is over; it called close_session on a READY
\* session aged 301 and left a READY session aged 300 in the registry.
C17_Witness ==
    \E s, u \in SessionIds :
        /\ <<s, "ready">> \in sweepSaw /\ now - created_at[s] = 301
        /\ s \notin sessions
        /\ sweepPc = "sleeping" /\ to_remove = <<>>
        /\ u \in sessions /\ status[u] = "ready" /\ now - created_at[u] = 300
        /\ \A p \in sweepSaw : p[1] # u

\* ------------------------------------------ properties: failed handshakes

C19_StatusIsPure ==
    [][poll' # poll =>
         /\ UNCHANGED <<regVars, closeVars, sweepVars, handlerVars, relayVars,
                        infoVars, toolVars>>
         /\ LET s == poll'.id
            IN  IF s \in sessions
                THEN /\ poll'.http = 200
                     /\ poll'.body.status = status[s]
                     /\ poll'.body.created_at = isoformat(created_at[s])
                     /\ (poll'.body.connected_at = "None") = ~connected_at[s]
                     /\ (poll'.body.connection_time_seconds = "None")
                            = ~connection_time_seconds[s]
                     /\ poll'.body.error_message = error_message[s]
                ELSE poll'.http = 404]_vars

\* C19 witness: the endpoint reported a failed handshake with its error and
\* duration, and a later request for the same session, closed since, would
\* be answered 404.
C19_Witness ==
    /\ poll.http = 200
    /\ poll.body.status = "error"
    /\ poll.body.error_message = "GOOGLE_API_KEY required"
    /\ poll.body.connected_at = "None"
    /\ poll.body.connection_time_seconds # "None"
    /\ poll.id \notin sessions
    /\ get_voice_session_status(poll.id).http = 404

\* C20: a get_session call for an id that is not in the registry, or whose
\* session is not READY, ends with the websocket closed with code 4004
\* (hpc "refused") and changes nothing else: registry, statuses, handles,
\* queues and the other handlers stay as they are.  The refused request
\* does nothing afterwards, and a session leaves IN_USE for READY only in
\* the exit of the handler that holds it.
C20_RefusedAttachChangesNothing ==
    [][\A h \in Handlers :
         /\ (AttachStep(h) /\ ~CanAttach(hsession'[h])) =>
                /\ hpc'[h] = "refused"
                /\ UNCHANGED <<regVars, closeVars, sweepVars, relayVars,
                               sideVars>>
                /\ \A g \in Handlers \ {h} :
                       hpc'[g] = hpc[g] /\ hsession'[g] = hsession[g]
         /\ hpc[h] = "refused" =>
                hpc'[h] = "refused" /\ hsession'[h] = hsession[h]
         /\ \A s \in SessionIds :
                (status[s] = "in_use" /\ status'[s] = "ready") =>
                   \E g \in Holders(s) : hpc'[g] = "done"
      ]_vars

\* C20 witness: a second client was refused the session the first client
\* holds, and the session is still IN_USE and still held.
C20_Witness ==
    \E s \in sessions : \E h, g \in Handlers :
        /\ h # g
        /\ hpc[h] = "refused" /\ hsession[h] = s
        /\ hpc[g] = "relay" /\ hsession[g] = s
        /\ status[s] = "in_use" /\ gemini_session[s]

\* ------------------------------------- properties: release

\* C21: a release_session call changes nothing but the status of the
\* session it names, and that only when the session is in the registry
\* with status IN_USE, which becomes READY; for an unknown id and for
\* every other status nothing changes.  A second call on the same id right
\* after the first changes nothing.
C21_ReleaseOnlyInUse ==
    [][released' # released =>
         LET s == released'[Len(released')][1]
         IN  /\ UNCHANGED <<sessions, gemini_session, connect_task, created_at,
                            now, ticks, nextId>>
             /\ UNCHANGED <<closeVars, sweepVars, handlerVars, relayVars,
                            infoVars, toolVars, poll>>
             /\ \A x \in SessionIds :
                    status'[x] =
                       IF x = s /\ x \in sessions /\ status[x] = "in_use"
                       THEN "ready" ELSE status[x]
             /\ (Len(released) > 0 /\ released[Len(released)][1] = s) =>
                    status' = status
      ]_vars

\* C21 witness: release_session was called twice on a session it found
\* IN_USE the first time and READY the second time; the session is READY.
C21_Witness ==
    \E s \in sessions :
        /\ released = <<<<s, "in_use">>, <<s, "ready">>>>
        /\ status[s] = "ready"

\* ------------------------------------- properties: sweep and close failure

\* the sweeper's close_session call goes on in this step
SweeperStep == <<sweepPc, sweepCur>>' # <<sweepPc, sweepCur>>

\* C22: when __aexit__ raises inside a close_session call of the sweeper,
\* the call still removes the session and the sweep goes on with the next
\* id of to_remove; the sweeper never ends with an exception; every id on
\* to_remove is removed from the registry in the end, and the sweeper gets
\* back to its sleep, from which the next sweep starts.
C22_SweepSurvivesCloseFailure ==
    /\ [][(sweepPc = "await_aexit" /\ SweeperStep
            /\ sweepCur \in close_warnings' \ close_warnings) =>
              /\ sweepPc' # "crashed"
              /\ sweepCur \notin sessions'
              /\ to_remove # <<>> =>
                    \E p \in sweepSaw' \ sweepSaw : p[1] = Head(to_remove)
          ]_vars
    /\ [](sweepPc # "crashed")
    /\ \A s \in SessionIds :
          (s \in Range(to_remove)) ~> (s \notin sessions)
    /\ (sweepPc # "sleeping") ~> (sweepPc = "sleeping" /\ to_remove = <<>>)

\* C22 witness: one sweep selected two READY sessions; closing the first
\* raised in __aexit__, the second was closed after it, both are gone and
\* the sweeper sleeps again.  No DELETE request took part.
C22_Witness ==
    /\ \A c \in CloseCalls : closePc[c] = "idle" /\ closeTarget[c] = UnknownId
    /\ \E s, x \in SessionIds :
          /\ s < x
          /\ s \in close_warnings /\ x \notin close_warnings
          /\ {<<s, "ready">>, <<x, "ready">>} \subseteq sweepSaw
          /\ aexit_calls[s] = 1 /\ aexit_calls[x] = 1
          /\ sessions = {}
          /\ sweepPc = "sleeping"

\* ------------------------------------- properties: failures stay local

\* the handlers attached to session s
HandlersOf(s) == {h \in Handlers : hsession[h] = s /\ hpc[h] # "idle"}

\* A failure happens in session s in this step: its handshake fails, one of
\* its relay's tasks ends on a disconnect or an exception, a handler of one
\* of its tool calls raises, or its relay is torn down.
FailureIn(s) ==
    \/ status[s] = "connecting" /\ status'[s] = "error"
    \/ \E h \in HandlersOf(s) :
          \/ listen[h] # "disconnected" /\ listen'[h] = "disconnected"
          \/ send[h] # "ended" /\ send'[h] = "ended"
          \/ recv[h] # "ended" /\ recv'[h] = "ended"
          \/ play[h] # "ended" /\ play'[h] = "ended"
          \/ hpc[h] \in {"relay", "aborting"} /\ hpc'[h] # hpc[h]
          \/ \E t \in ToolCalls :
                /\ tool_owner[t] = h
                /\ Len(tool_raised'[t]) > Len(tool_raised[t])
                /\ tool_raised'[t][Len(tool_raised'[t])] # NotRaised

\* C23: a step in which a failure happens in session s leaves every other
\* session as it is: in the registry or not, its status, its handle, its
\* two queues and the tasks of its relay.
C23_FailureStaysLocal ==
    [][\A s \in SessionIds :
         FailureIn(s) =>
           \A x \in SessionIds \ {s} :
              /\ (x \in sessions') = (x \in sessions)
              /\ status'[x] = status[x]
              /\ gemini_session'[x] = gemini_session[x]
              /\ out_queue'[x] = out_queue[x]
              /\ audio_in_queue'[x] = audio_in_queue[x]
              /\ \A g \in HandlersOf(x) :
                    /\ hpc'[g] = hpc[g]
                    /\ <<listen[g], send[g], recv[g], play[g]>>'
                         = <<listen[g], send[g], recv[g], play[g]>>
      ]_vars

\* C23 witness: the upstream of one session failed under its relay and a
\* tool call of it raised, while the relay of the other session runs with
\* all four tasks and a frame on its queue.
C23_Witness ==
    \E s, x \in sessions : \E h, g \in Handlers :
        /\ s # x
        /\ hsession[h] = s /\ hpc[h] = "relay"
        /\ recv[h] = "ended"
        /\ \E t \in ToolCalls : tool_owner[t] = h /\ Raised(t)
        /\ hsession[g] = x /\ hpc[g] = "relay"
        /\ Alive(listen[g]) /\ Alive(send[g]) /\ Alive(recv[g]) /\ Alive(play[g])
        /\ status[x] = "in_use" /\ gemini_session[x]
        /\ audio_in_queue[x] # <<>>

\* ------------------------------------- properties: create

Playing(h) == IF play[h] = "writing" THEN <<playFrame[h]>> ELSE <<>>

\* C25: the frames written to a client are frames receive_audio put on the
\* session's audio_in_queue, in the order they were put, none twice; and
\* for a relay that is the only one its session has had, whose play_audio
\* runs and whose session has had no frame discarded by a stop, the frames
\* put are exactly the frames written, then the frame being written, then
\* the queue's content: none is skipped.
C25_OutboundFifo ==
    \A h \in Handlers :
        hpc[h] \in {"relay", "aborting", "done"} =>
           LET s == hsession[h] IN
           /\ InOrderOf(written[h], recv_log[s])
           /\ (/\ HandlersOf(s) = {h}
               /\ play[h] \in {"get", "writing"}
               /\ Range(recv_log[s]) \cap drained = {}) =>
                 recv_log[s] = written[h] \o Playing(h) \o audio_in_queue[s]

\* C25 witness: the upstream produced three frames with no stop in between
\* and the client received all three.
C25_Witness ==
    \E h \in Handlers :
        /\ hpc[h] = "relay"
        /\ Len(recv_log[hsession[h]]) >= 3
        /\ written[h] = recv_log[hsession[h]]
        /\ drained = {}

\* ------------------------------------- properties: one close of the handle

\* C26: _connection_cm.__aexit__ is called at most once for each session.
C26_HandleClosedOnce == \A s \in SessionIds : aexit_calls[s] <= 1

\* ------------------------------------- properties: one relay per session

\* handler h has a relay on its session: it is between accept() and the
\* return of run_with_session, or one of its four tasks has not ended
RelayOn(h) ==
    \/ hpc[h] \in {"accepting", "greeting", "relay", "aborting"}
    \/ \E k \in {listen[h], send[h], recv[h], play[h]} :
          Alive(k) \/ k = "cancelling"

\* C27: no session has two relays at a time, and a get_session call hands
\* a session out only when every handler that had it before has left
\* run_with_session with its four tasks ended and has run release_session.
C27_OneRelayPerSession ==
    /\ [](\A h, g \in Handlers :
            (h # g /\ RelayOn(h) /\ RelayOn(g)) => hsession[h] # hsession[g])
    /\ [][\A h \in Handlers :
            (AttachStep(h) /\ hpc'[h] = "accepting") =>
               \A g \in Handlers \ {h} :
                  (hpc[g] # "idle" /\ hsession[g] = hsession'[h]) =>
                     /\ hpc[g] \in {"done", "refused"}
                     /\ ~RelayOn(g)
         ]_vars

\* C27 witness: a second client has the session in a relay after the first
\* client's relay on it ended and released it.
C27_Witness ==
    \E h, g \in Handlers :
        /\ h # g /\ hsession[h] = hsession[g]
        /\ hpc[g] = "done" /\ listen[g] = "cancelled" /\ ~RelayOn(g)
        /\ hpc[h] = "relay" /\ status[hsession[h]] = "in_use"

\* ------------------------------------- properties: READY means usable

\* the upstream connection of s failed under a relay: a session.send() or
\* the session.receive() stream of one of its handlers raised
DeadHandle(s) ==
    \E h \in HandlersOf(s) : send[h] = "ended" \/ recv[h] = "ended"

\* C28: a READY session has a handle and its upstream connection has not
\* failed under a relay; no get_session call hands out a session whose
\* upstream connection has failed.
C28_ReadyMeansUsable ==
    /\ [](\A s \in sessions :
            status[s] = "ready" => gemini_session[s] /\ ~DeadHandle(s))
    /\ [][\A h \in Handlers :
            (AttachStep(h) /\ hpc'[h] = "accepting") => ~DeadHandle(hsession'[h])
         ]_vars

\* ------------------------------------- properties: nothing outlives the relay

\* run_with_session of handler h has returned
Returned(h) == hpc[h] = "done"

\* C29: once run_with_session has returned, none of its four tasks and none
\* of the handle_tool_call tasks its receive_audio created is running, and
\* none of them sends a notification to the client or a response upstream
\* afterwards.
C29_NothingOutlivesRelay ==
    /\ [](\A h \in Handlers :
            Returned(h) =>
              /\ ~RelayOn(h)
              /\ \A t \in ToolCalls :
                    tool_owner[t] = h => tool_pc[t] \in {"none", "done"})
    /\ [][\A t \in ToolCalls :
            (tool_owner[t] # 0 /\ Returned(tool_owner[t])) =>
               /\ ui_log'[t] = ui_log[t]
               /\ tool_sent'[t] = tool_sent[t]
         ]_vars

\* ------------------------------------- properties: queues at a new attach

\* session s has been held by a handler that has left run_with_session
UsedBefore(s) == \E g \in HandlersOf(s) : Returned(g)

\* C30: when get_session hands out a session that a handler held before,
\* both queues of the session are empty, so that nothing buffered during
\* the earlier attachment can be played to the new client or sent upstream.
C30_QueuesEmptyOnReattach ==
    [][\A h \in Handlers :
         (AttachStep(h) /\ hpc'[h] = "accepting"
          /\ UsedBefore(hsession'[h])) =>
            /\ out_queue[hsession'[h]] = <<>>
            /\ audio_in_queue[hsession'[h]] = <<>>
      ]_vars

\* --------------------------------------- properties: audio after a stop

\* C31: no frame that receive_audio had enqueued, and that had not been
\* written yet, when a stop was processed is written to a client
\* afterwards; a frame play_audio held in send_bytes() at the stop counts.
C31_NothingPlayedAfterStop ==
    \A h \in Handlers :
       hsession[h] \in SessionIds =>
          Range(written[h]) \cap stop_pending[hsession[h]] = {}

\* C32: while the relay runs, listen_audio blocked in put() on a full
\* out_queue always gets out of the put: a slot is freed or the relay is torn
\* down, so that it can go on to process a stop or a disconnect.
C32_ListenNeverStuck ==
    \A h \in Handlers :
       (hpc[h] = "relay" /\ listen[h] = "put_wait")
          ~> (listen[h] # "put_wait")

\* ------------------------------------------ properties: establishment ends

\* C33: every created session leaves PENDING and CONNECTING: its
\* establishment task ends, with the session READY, ERROR or CLOSED.
C33_EstablishmentEnds ==
    \A s \in SessionIds :
       (s \in Created /\ status[s] \in {"pending", "connecting"})
          ~> (/\ status[s] \in {"ready", "error", "closed"}
              /\ TaskDone(connect_task[s]))

\* C33 witness: one establishment ended READY, one ERROR after a handshake
\* that timed out.
C33_Witness ==
    \E s, u \in Created :
        /\ status[s] = "ready" /\ connect_task[s] = "done"
        /\ status[u] = "error" /\ connect_task[u] = "done"
        /\ error_message[u] = "timed out during opening handshake"

\* ------------------------------------------------- properties: expiry

\* C34: a session that is READY or ERROR in the registry, with no client
\* attaching to it and no DELETE for it, is eventually CLOSED and out of the
\* registry, and the __aexit__ of its handle, if it has one, has been called.
C34_IdleSessionsExpire ==
    \A s \in SessionIds :
       (s \in sessions /\ status[s] \in {"ready", "error"})
          ~> (/\ s \notin sessions
              /\ status[s] = "closed"
              /\ gemini_session[s] => aexit_calls[s] >= 1)

\* C34 witness: the sweeper has closed and removed a session that was not
\* old enough when the sweeper first woke up, and released its handle.
C34_Witness ==
    \E s \in SessionIds :
        /\ s \notin sessions
        /\ <<s, "ready">> \in sweepSaw
        /\ aexit_calls[s] = 1
        /\ now > max_age_seconds + 1

\* ------------------------------------------ properties: tool responses

\* C35: the function_responses a dispatch sends upstream are sent once, when
\* the dispatch ends, and hold exactly one response for each function call
\* of the request, in the order of the request, with the id and the name of
\* that call and a str as its result -- for a known tool, for a name the
\* dispatch does not know and for a handler that raised.
C35_OneResponsePerCall ==
    [][\A t \in ToolCalls :
         /\ tool_sent'[t] # tool_sent[t] =>
               /\ tool_sent[t] = <<>>
               /\ tool_pc'[t] = "done"
         /\ tool_pc'[t] = "done" =>
               /\ Len(tool_sent'[t]) = Len(tool_call'[t])
               /\ \A i \in 1..Len(tool_call'[t]) :
                     /\ tool_sent'[t][i].id = tool_call'[t][i].id
                     /\ tool_sent'[t][i].name = tool_call'[t][i].name
                     /\ tool_sent'[t][i].response.result.type = "str"
      ]_vars

\* C35 witness: a dispatch has answered a request of two function calls, one
\* whose handler raised and one for a name the dispatch does not know.
C35_Witness ==
    \E t \in ToolCalls :
        /\ tool_pc[t] = "done" /\ Len(tool_sent[t]) = 2
        /\ tool_raised[t][1] # NotRaised
        /\ tool_sent[t][1].name \in KnownTools
        /\ tool_sent[t][2].name \notin KnownTools
        /\ tool_sent[t][2].response.result = UnknownResult(tool_call[t][2].name)

\* ------------------------------------------ properties: close, unknown id

\* C37: a DELETE for an id that is not in the registry is answered 404 (not
\* found) and changes nothing of the registry, the sessions or the relays.
C37_UnknownCloseNotFound ==
    [][\A c \in CloseCalls :
         (closePc[c] = "idle" /\ closePc'[c] # "idle"
          /\ closeTarget'[c] \notin sessions) =>
            /\ close_voice_session(c)'.http = 404
            /\ UNCHANGED <<regVars, exitVars, sweepVars, handlerVars,
                           relayVars, sideVars>>
      ]_vars

\* ------------------------------------------------ properties: connected_at

\* C36: connected_at is assigned once at most, by the step that takes the
\* session from CONNECTING to READY, and that step assigns it; no other
\* step (attach, release, close, sweep) assigns or clears it; a session that
\* has not been READY has none.
C36_ConnectedAtOnce ==
    /\ [][\A s \in SessionIds :
            /\ (status[s] = "connecting" /\ status'[s] = "ready") =>
                  /\ connected_at'[s]
                  /\ connected_stamps'[s] = 1
            /\ ~(status[s] = "connecting" /\ status'[s] = "ready") =>
                  /\ connected_at'[s] = connected_at[s]
                  /\ connected_stamps'[s] = connected_stamps[s]
         ]_vars
    /\ [](\A s \in SessionIds :
            /\ connected_stamps[s] <= 1
            /\ connected_at[s] <=> connected_stamps[s] = 1
            /\ status[s] \in {"pending", "connecting", "error"}
                  => ~connected_at[s])

\* C36 witness: a session that was connected, attached to, released and
\* closed has the connected_at of its handshake, and a session whose
\* handshake failed was closed without one.
C36_Witness ==
    \E s, u \in Created :
        /\ status[s] = "closed" /\ connected_at[s]
        /\ \E h \in Handlers : hsession[h] = s /\ hpc[h] = "done"
        /\ status[u] = "closed" /\ ~connected_at[u]
        /\ error_message[u] # "None"

====
